---------------------------- MODULE Spec2Model ----------------------------
(***************************************************************************)
(* A model of the `seasonal` package (welch/seasonal): trend estimation,  *)
(* periodogram peak detection, GCV period selection and seasonal          *)
(* adjustment.  Every public operation is a pure function of its          *)
(* arguments; the state machine records the last call (operation,         *)
(* arguments, result and the trace of periods handed to gcv).             *)
(*                                                                         *)
(* Numbers.  numpy float64 values are modelled as exact extended          *)
(* rationals [n, d]: d > 0 is the finite value n/d in lowest terms,       *)
(* [1,0] is +inf, [-1,0] is -inf and [0,0] is NaN, with the IEEE rules    *)
(* for the operations the code uses (x/0, inf*0, comparisons with NaN).   *)
(* An optional value (Python's None) is the empty sequence, a present     *)
(* value v is <<v>>.                                                       *)
(***************************************************************************)
EXTENDS Integers, Sequences, FiniteSets, TLC

(***************************************************************************)
(* Bounds of the model.                                                    *)
(***************************************************************************)
\* the period of the generated square waves is 1 .. MaxBase
MaxBase == 4
\* the peak of a spectral estimate is 1 .. MaxPow (over a floor of 0 or 1)
MaxPow == 2

(***************************************************************************)
(* Optional values.                                                        *)
(***************************************************************************)
None == <<>>
Some(v) == <<v>>
IsNone(o) == o = <<>>
Val(o) == o[1]

(***************************************************************************)
(* Extended rational arithmetic (float64 stand-in).                        *)
(***************************************************************************)
Abs(x) == IF x < 0 THEN -x ELSE x
Sign(x) == IF x < 0 THEN -1 ELSE IF x > 0 THEN 1 ELSE 0

RECURSIVE GCD(_, _)
GCD(a, b) == IF b = 0 THEN a ELSE GCD(b, a % b)

Norm(n, d) ==
    IF d = 0 THEN [n |-> Sign(n), d |-> 0]
    ELSE LET g == GCD(Abs(n), Abs(d))
             s == Sign(d)
         IN [n |-> (s * n) \div g, d |-> (s * d) \div g]

R(i) == [n |-> i, d |-> 1]
NaN == [n |-> 0, d |-> 0]
Inf == [n |-> 1, d |-> 0]
Zero == R(0)
One == R(1)
IsNaN(x) == x.d = 0 /\ x.n = 0
IsFinite(x) == x.d > 0

\* x + y over the common denominator x.d * y.d / g, g dividing both
AddOver(x, y, g) ==
    Norm(x.n * (y.d \div g) + y.n * (x.d \div g), (x.d \div g) * y.d)
RAdd(x, y) ==
    IF x.d = 0 /\ y.d = 0
    THEN (IF x.n = y.n THEN x ELSE NaN)
    ELSE AddOver(x, y, GCD(x.d, y.d))
RNeg(x) == [n |-> -x.n, d |-> x.d]
RSub(x, y) == RAdd(x, RNeg(y))
\* x * y, cancelling g from x.n and y.d and h from y.n and x.d first
MulOver(x, y, g, h) ==
    Norm((x.n \div g) * (y.n \div h), (x.d \div h) * (y.d \div g))
RMul(x, y) ==
    IF x.d = 0 \/ y.d = 0 \/ x.n = 0 \/ y.n = 0
    THEN MulOver(x, y, 1, 1)
    ELSE MulOver(x, y, GCD(Abs(x.n), y.d), GCD(Abs(y.n), x.d))
RInv(x) == Norm(x.d, x.n)
RDiv(x, y) == RMul(x, RInv(y))
\* x < y; any comparison with NaN is false
RLess(x, y) ==
    /\ ~IsNaN(x)
    /\ ~IsNaN(y)
    /\ IF x.d = 0 /\ y.d = 0 THEN x.n < y.n ELSE x.n * y.d < y.n * x.d
\* x <= y; any comparison with NaN is false
RLeq(x, y) ==
    /\ ~IsNaN(x)
    /\ ~IsNaN(y)
    /\ IF x.d = 0 /\ y.d = 0 THEN x.n <= y.n ELSE x.n * y.d <= y.n * x.d

\* a comparison that never finds a value close to zero
IsCloseNever(x) == FALSE

\* a comparison with the tolerance 1e-5
IsCloseWide(x) == x.d > 0 /\ Abs(x.n) <= x.d \div 100000

\* numpy.isclose(x, 0.0): |x - 0| <= atol + rtol * |0| with atol = 1e-8
AtolInv == 100000000
IsClose0(x) == IsFinite(x) /\ Abs(x.n) <= x.d \div AtolInv

(***************************************************************************)
(* Series helpers.                                                         *)
(***************************************************************************)
\* the sum of s[lo..hi], taken by halves as numpy's pairwise summation does
RECURSIVE SumRange(_, _, _)
SumRange(s, lo, hi) ==
    IF lo > hi THEN Zero
    ELSE IF lo = hi THEN s[lo]
    ELSE LET mid == (lo + hi) \div 2
         IN RAdd(SumRange(s, lo, mid), SumRange(s, mid + 1, hi))
SumSeq(s, k) == SumRange(s, 1, k)

SeqSub(a, b) == [t \in 1..Len(a) |-> RSub(a[t], b[t])]
Zeros(n) == [t \in 1..n |-> Zero]
Mean(s) == RDiv(SumSeq(s, Len(s)), R(Len(s)))
\* ndarray.var(): the mean of the squared deviations from the mean
Var(s) == LET m == Mean(s)
          IN Mean([t \in 1..Len(s) |-> RMul(RSub(s[t], m), RSub(s[t], m))])

(***************************************************************************)
(* seasonal.gcv: one pass over the series accumulating, per phase idx,     *)
(* the sum, the sum of squares and the number of observations.  Phase i   *)
(* of the code (0-based) is index i + 1 of the accumulators.  The pass     *)
(* hands sample t to phase (t - 1) % period, so that the c-th observation  *)
(* of phase i is data[i + (c - 1) * period] and each accumulator receives  *)
(* its observations in the order of the series.                            *)
(***************************************************************************)
\* sum_y[idx], sum_y2[idx] and cycles[idx] of phase i after c of its
\* observations
RECURSIVE PhaseAcc(_, _, _, _)
PhaseAcc(data, period, i, c) ==
    IF c = 0
    THEN [sum_y |-> Zero, sum_y2 |-> Zero, cycles |-> 0]
    ELSE LET a == PhaseAcc(data, period, i, c - 1)
             yii == data[i + (c - 1) * period]
         IN [sum_y |-> RAdd(a.sum_y, yii),
             sum_y2 |-> RAdd(a.sum_y2, RMul(yii, yii)),
             cycles |-> a.cycles + 1]

\* the accumulators of every phase after the first k samples
GcvAcc(data, period, k) ==
    [i \in 1..period |->
        PhaseAcc(data, period, i, IF i <= k THEN ((k - i) \div period) + 1 ELSE 0)]

\* a factor that is not squared
LooFactorPlain(c) == RDiv(R(c), RSub(R(c), One))

\* the leave-one-out factor (cycles / (cycles - 1.0)) ** 2
LooFactor(c) == LET f == RDiv(R(c), RSub(R(c), One)) IN RMul(f, f)

\* a score that takes every phase to hold as many observations as the first
GcvScoreEven(a, period, n) ==
    [cv_mse |->
        LET raw == RDiv(SumSeq([i \in 1..period |->
                                  RMul(LooFactor(a[i].cycles),
                                       RSub(a[i].sum_y2,
                                            RDiv(RMul(a[i].sum_y, a[i].sum_y),
                                                 R(a[i].cycles))))], period),
                        R(period * a[1].cycles))
        IN IF IsClose0(raw) THEN Zero ELSE raw,
     seasons |-> [i \in 1..period |-> RDiv(a[i].sum_y, R(a[i].cycles))]]

\* cv_mse = 0.0 if np.isclose(cv_mse, 0.0) else cv_mse, returned with seasons
GcvSnap(cv_mse, seasons) ==
    [cv_mse |-> IF IsClose0(cv_mse) THEN Zero ELSE cv_mse, seasons |-> seasons]

\* the means and the inflated squared errors of the phases accumulated in a
GcvScore(a, period, n) ==
    LET seasons == [i \in 1..period |-> RDiv(a[i].sum_y, R(a[i].cycles))]
        sse == [i \in 1..period |->
                  RSub(a[i].sum_y2,
                       RDiv(RMul(a[i].sum_y, a[i].sum_y), R(a[i].cycles)))]
        terms == [i \in 1..period |-> RMul(LooFactor(a[i].cycles), sse[i])]
    IN GcvSnap(RDiv(SumSeq(terms, period), R(n)), seasons)

Gcv(data, period) == GcvScore(GcvAcc(data, period, Len(data)), period, Len(data))

(***************************************************************************)
(* periodogram.periodogram.  scipy.signal.welch is library code: its       *)
(* frequencies are k / nperseg for k = 0 .. nperseg // 2, and the power it *)
(* estimates for bins 1 .. nperseg // 2 is the argument pw (a sequence of  *)
(* non-negative values the caller of the model draws).  n is len(data).   *)
(***************************************************************************)
MIN_FFT_CYCLES == 3
MAX_FFT_PERIOD == 512

Min(a, b) == IF a < b THEN a ELSE b
Max(a, b) == IF a > b THEN a ELSE b

\* int(round(a / b)) for a, b > 0 under Python 3's round-half-to-even
RoundDiv(a, b) ==
    LET q == a \div b
        r2 == 2 * (a % b)
    IN IF r2 > b THEN q + 1
       ELSE IF r2 < b THEN q
       ELSE IF q % 2 = 0 THEN q ELSE q + 1

\* the default max_period: int(min(len(data) / MIN_FFT_CYCLES, MAX_FFT_PERIOD))
DefaultMaxPeriod(n) == Min(n \div MIN_FFT_CYCLES, MAX_FFT_PERIOD)
\* the FFT window
NPerSeg(n, max_period) == Min(max_period * 2, n \div 2)
\* number of non-DC frequency bins welch returns for a window of nperseg
NBins(nperseg) == nperseg \div 2
\* periods = [int(round(1.0 / freq)) for freq in freqs[1:]]
RawPeriods(nperseg) == [k \in 1..NBins(nperseg) |-> RoundDiv(nperseg, k)]

\* numpy.delete(s, idx) for a 0-based idx
Delete(s, idx) == [t \in 1..(Len(s) - 1) |-> IF t <= idx THEN s[t] ELSE s[t + 1]]

\* a collapse that keeps the power of the first of the equal periods
RECURSIVE CollapseKeepFirst(_, _, _)
CollapseKeepFirst(periods, power, idx) ==
    IF idx < Len(periods)
    THEN IF periods[idx + 1] = periods[idx]
         THEN CollapseKeepFirst(Delete(periods, idx), Delete(power, idx), idx)
         ELSE CollapseKeepFirst(periods, power, idx + 1)
    ELSE [periods |-> periods, power |-> power]

\* a collapse that moves on after merging one pair of equal periods
RECURSIVE CollapseOnce(_, _, _)
CollapseOnce(periods, power, idx) ==
    IF idx < Len(periods)
    THEN IF periods[idx + 1] = periods[idx]
         THEN CollapseOnce(Delete(periods, idx),
                           Delete([power EXCEPT ![idx] =
                                      IF RLess(power[idx], power[idx + 1])
                                      THEN power[idx + 1] ELSE power[idx]], idx),
                           idx + 1)
         ELSE CollapseOnce(periods, power, idx + 1)
    ELSE [periods |-> periods, power |-> power]

\* the duplicate-collapsing while loop; idx is the code's 0-based index
RECURSIVE Collapse(_, _, _)
Collapse(periods, power, idx) ==
    IF idx < Len(periods)
    THEN IF periods[idx + 1] = periods[idx]
         THEN Collapse(Delete(periods, idx),
                       Delete([power EXCEPT ![idx] =
                                  IF RLess(power[idx], power[idx + 1])
                                  THEN power[idx + 1] ELSE power[idx]], idx),
                       idx)
         ELSE Collapse(periods, power, idx + 1)
    ELSE [periods |-> periods, power |-> power]

\* s[start : stop] with Python's treatment of negative and oversized bounds
PySlice(s, start, stop) ==
    LET len == Len(s)
        clamp(i) == IF i < 0 THEN Max(i + len, 0) ELSE Min(i, len)
        lo == clamp(start)
        hi == clamp(stop)
    IN IF lo < hi THEN [t \in 1..(hi - lo) |-> s[lo + t]] ELSE <<>>

\* len(s[s >= v]) and len(s[s < v])
CountAtLeast(s, v) == Cardinality({t \in 1..Len(s) : s[t] >= v})
CountBelow(s, v) == Cardinality({t \in 1..Len(s) : s[t] < v})

Periodogram(n, pw, min_period, max_period_arg) ==
    LET max_period == IF IsNone(max_period_arg) THEN DefaultMaxPeriod(n)
                      ELSE Val(max_period_arg)
        nperseg == NPerSeg(n, max_period)
        c == Collapse(RawPeriods(nperseg), pw, 1)
        power1 == [t \in 1..Len(c.power) |->
                     IF c.periods[t] = nperseg THEN Zero ELSE c.power[t]]
        min_i == CountAtLeast(c.periods, max_period) - 1
        max_i == CountBelow(c.periods, min_period)
    IN IF nperseg < 1
       THEN [err |-> "ValueError", periods |-> <<>>, power |-> <<>>]
       ELSE [err |-> "",
             periods |-> PySlice(c.periods, min_i, -max_i),
             power |-> PySlice(power1, min_i, -max_i)]

(***************************************************************************)
(* periodogram.periodogram_peaks.  A peak is the quad                      *)
(* <<period, power, period-, period+>>.                                    *)
(***************************************************************************)
\* ndarray.max()
MaxOf(s, k) == CHOOSE m \in {s[t] : t \in 1..k} : \A t \in 1..k : ~RLess(m, s[t])

\* an argmax that takes the first index holding any power
ArgFirst(s) ==
    IF \A i \in 1..Len(s) : s[i] = Zero THEN 1
    ELSE CHOOSE i \in 1..Len(s) : s[i] # Zero /\ \A j \in 1..(i - 1) : s[j] = Zero

\* ndarray.argmax(): the first index holding the maximum (1-based here)
ArgMax(s) == LET m == MaxOf(s, Len(s))
             IN CHOOSE i \in 1..Len(s) : s[i] = m /\ \A j \in 1..(i - 1) : s[j] # m

\* an extraction loop that also stops at a power equal to keep
RECURSIVE ExtractPeaksAbove(_, _, _, _)
ExtractPeaksAbove(periods, power, keep, result) ==
    LET peak_i == ArgMax(power)
        min_period == periods[Min(peak_i + 1, Len(periods))]
        max_period == periods[Max(peak_i - 1, 1)]
    IN IF RLeq(power[peak_i], keep)
       THEN result
       ELSE ExtractPeaksAbove(periods, [power EXCEPT ![peak_i] = Zero], keep,
                              Append(result, <<periods[peak_i], power[peak_i],
                                               min_period, max_period>>))

\* an extraction that ends with the first peak
ExtractPeaksOne(periods, power, keep, result) ==
    IF RLess(power[ArgMax(power)], keep) THEN result
    ELSE Append(result, <<periods[ArgMax(power)], power[ArgMax(power)],
                          periods[Min(ArgMax(power) + 1, Len(periods))],
                          periods[Max(ArgMax(power) - 1, 1)]>>)

\* an extraction loop whose brackets are not clamped to the grid: beyond
\* either end it takes the period itself less or plus one
RECURSIVE ExtractPeaksUnclamped(_, _, _, _)
ExtractPeaksUnclamped(periods, power, keep, result) ==
    LET peak_i == ArgMax(power)
        min_period == IF peak_i + 1 <= Len(periods) THEN periods[peak_i + 1]
                      ELSE periods[peak_i] - 1
        max_period == IF peak_i - 1 >= 1 THEN periods[peak_i - 1]
                      ELSE periods[peak_i] + 1
    IN IF RLess(power[peak_i], keep)
       THEN result
       ELSE ExtractPeaksUnclamped(periods, [power EXCEPT ![peak_i] = Zero], keep,
                                  Append(result, <<periods[peak_i], power[peak_i],
                                                   min_period, max_period>>))

\* the greedy extraction loop
RECURSIVE ExtractPeaks(_, _, _, _)
ExtractPeaks(periods, power, keep, result) ==
    LET peak_i == ArgMax(power)
        min_period == periods[Min(peak_i + 1, Len(periods))]
        max_period == periods[Max(peak_i - 1, 1)]
    IN IF RLess(power[peak_i], keep)
       THEN result
       ELSE ExtractPeaks(periods, [power EXCEPT ![peak_i] = Zero], keep,
                         Append(result, <<periods[peak_i], power[peak_i],
                                          min_period, max_period>>))

PeriodogramPeaks(n, pw, min_period, max_period_arg, thresh) ==
    LET pg == Periodogram(n, pw, min_period, max_period_arg)
        keep == RMul(MaxOf(pg.power, Len(pg.power)), thresh)
        result == ExtractPeaks(pg.periods, pg.power, keep, <<>>)
    IN IF pg.err # "" THEN [err |-> pg.err, peaks |-> None]
       ELSE IF \A t \in 1..Len(pg.power) : IsClose0(pg.power[t])
       THEN [err |-> "", peaks |-> None]
       ELSE [err |-> "", peaks |-> IF Len(result) > 0 THEN Some(result) ELSE None]

(***************************************************************************)
(* trend.py.  A filter's result is [err, v]: err is "" and v the series,   *)
(* or err names the exception the call ends with.                          *)
(***************************************************************************)
Ok(v) == [err |-> "", v |-> v]
Fail(e) == [err |-> e, v |-> <<>>]

\* Python's a // 2 (floor division, also for negative a)
FloorHalf(a) == IF a >= 0 THEN a \div 2 ELSE -((1 - a) \div 2)

\* the position of s[i] in sorted order (0-based); equal values keep their order
Rank(s, i) ==
    Cardinality({j \in 1..Len(s) : RLess(s[j], s[i]) \/ (s[j] = s[i] /\ j < i)})
\* the k-th smallest element of s (1-based)
Nth(s, k) == s[CHOOSE i \in 1..Len(s) : Rank(s, i) = k - 1]
\* numpy.median: the middle of the sorted values, NaN for no values
Median(s) ==
    LET n == Len(s)
    IN IF n = 0 THEN NaN
       ELSE IF n % 2 = 1 THEN Nth(s, n \div 2 + 1)
       ELSE RDiv(RAdd(Nth(s, n \div 2), Nth(s, n \div 2 + 1)), R(2))

\* the pairwise slopes (y[j] - y[i]) / (j - i), i < j, of scipy.stats.theilslopes
PairSlopes(y) ==
    LET n == Len(y)
        pairs == {<<i, j>> \in (1..n) \X (1..n) : i < j}
        \* pair number k in row-major order
        ord(pr) == Cardinality({q \in pairs :
                        q[1] < pr[1] \/ (q[1] = pr[1] /\ q[2] <= pr[2])})
    IN [k \in 1..Cardinality(pairs) |->
          LET pr == CHOOSE q \in pairs : ord(q) = k
          IN RDiv(RSub(y[pr[2]], y[pr[1]]), R(pr[2] - pr[1]))]
\* stats.theilslopes(y)[0]: the median of the pairwise slopes
TheilSlope(y) == Median(PairSlopes(y))

\* dst[start:stop] = rhs under numpy's rules: equal lengths, or a single value
AssignSlice(dst, start, stop, rhs) ==
    LET len == Len(dst)
        clamp(i) == IF i < 0 THEN Max(i + len, 0) ELSE Min(i, len)
        lo == clamp(start)
        hi == Max(clamp(stop), lo)
    IN IF Len(rhs) = hi - lo
       THEN Ok([t \in 1..len |-> IF lo < t /\ t <= hi THEN rhs[t - lo] ELSE dst[t]])
       ELSE IF Len(rhs) = 1
       THEN Ok([t \in 1..len |-> IF lo < t /\ t <= hi THEN rhs[1] ELSE dst[t]])
       ELSE Fail("ValueError")

\* whether src[i] is a valid (possibly negative) index
ValidIndex(src, i) == -Len(src) <= i /\ i < Len(src)
\* src[i] for a valid Python index i
At(src, i) == IF i < 0 THEN src[Len(src) + i + 1] ELSE src[i + 1]

\* an aglet that repeats the nearest filtered sample at both ends
AgletFlat(src, window) ==
    LET n == Len(src)
        half == FloorHalf(window)
        k == Max(half, 0)
        d1 == AssignSlice(src, 0, half, [j \in 1..k |-> At(src, half)])
        d2 == AssignSlice(d1.v, -half, n, [j \in 1..k |-> At(src, -half - 1)])
    IN IF ~ValidIndex(src, half) THEN Fail("IndexError")
       ELSE IF d1.err # "" THEN d1
       ELSE IF ~ValidIndex(src, -half - 1) THEN Fail("IndexError")
       ELSE d2

\* lines 123 and 124: the ends of dst = np.array(src) replaced by the lines
\* of the two slopes
AgletEnds(src, half, leftslope, rightslope) ==
    LET n == Len(src)
        k == Max(half, 0)
        left == [j \in 1..k |-> RAdd(RMul(R(j - 1 - half), leftslope), At(src, half))]
        right == [j \in 1..k |-> RAdd(RMul(R(j), rightslope), At(src, -half - 1))]
        d1 == AssignSlice(src, 0, half, left)
        d2 == AssignSlice(d1.v, -half, n, right)
    IN IF ~ValidIndex(src, half) THEN Fail("IndexError")
       ELSE IF d1.err # "" THEN d1
       ELSE IF ~ValidIndex(src, -half - 1) THEN Fail("IndexError")
       ELSE d2

Aglet(src, window) ==
    AgletEnds(src, FloorHalf(window), TheilSlope(PySlice(src, 0, window)),
              TheilSlope(PySlice(src, -window, Len(src))))

\* a median filter that returns the full windows only
MedianFilterValid(data, window) ==
    LET n == Len(data)
        half == FloorHalf(window)
    IN IF half < 0 THEN Fail("IndexError")
       ELSE Ok([t \in 1..Max(n - 2 * half, 0) |->
                  Median(PySlice(data, t - 1, t + 2 * half))])

MedianFilter(data, window) ==
    LET n == Len(data)
        half == FloorHalf(window)
    IN IF half < 0 THEN Fail("IndexError")
       ELSE Ok([t \in 1..n |->
                  IF half <= t - 1 /\ t - 1 < n - half
                  THEN Median(PySlice(data, Max(0, t - 1 - half), t + half))
                  ELSE data[t]])

\* numpy.cumsum preceded by 0: cum[k] is index k + 1 here
RECURSIVE Cum(_, _)
Cum(data, k) == IF k = 0 THEN <<Zero>>
                ELSE LET c == Cum(data, k - 1) IN Append(c, RAdd(c[k], data[k]))

MeanFilter(data, window) ==
    LET n == Len(data)
        cum == Cum(data, n)
        half == FloorHalf(window)
        hi == PySlice(cum, window, n + 1)
        lo == PySlice(cum, 0, -window)
        m == Min(Len(hi), Len(lo))
    IN IF window = 0 THEN Fail("ZeroDivisionError")
       ELSE IF Len(hi) # Len(lo) /\ Len(hi) # 1 /\ Len(lo) # 1 THEN Fail("ValueError")
       ELSE AssignSlice(data, half, -half,
                        [j \in 1..Max(Len(hi), Len(lo)) |->
                           RDiv(RSub(hi[IF Len(hi) = 1 THEN 1 ELSE j],
                                     lo[IF Len(lo) = 1 THEN 1 ELSE j]), R(window))])

(***************************************************************************)
(* scipy.stats.theilslopes(y) with its 95% confidence interval: the        *)
(* interval ends are the sorted pairwise slopes at the ranks               *)
(*   Rl = max(round((nt - z*sigma) / 2) - 1, 0),                           *)
(*   Ru = min(round((nt + z*sigma) / 2), nt - 1),                          *)
(* z = 1.959964 and 18 * sigma^2 = ny(ny-1)(2ny+5) - sum over the values   *)
(* repeated k times in y of k(k-1)(2k+5).  z * sigma is compared with      *)
(* integers through its square, z^2 being Z2N / Z2D.                       *)
(***************************************************************************)
Z2N == 38415
Z2D == 10000

RECURSIVE SumInts(_, _)
SumInts(f, k) == IF k = 0 THEN 0 ELSE SumInts(f, k - 1) + f[k]

\* 18 * sigma^2
Sigma18(y) ==
    LET ny == Len(y)
        \* the first index of each value that occurs k >= 2 times contributes
        reps == [t \in 1..ny |->
                   LET k == Cardinality({u \in 1..ny : y[u] = y[t]})
                   IN IF k >= 2 /\ \A u \in 1..(t - 1) : y[u] # y[t]
                      THEN k * (k - 1) * (2 * k + 5) ELSE 0]
    IN ny * (ny - 1) * (2 * ny + 5) - SumInts(reps, ny)

\* z * sigma < c, for an integer c: z^2 * sigma^2 < c^2
ZSigmaLess(s18, c) == c > 0 /\ (Z2N * s18) \div (18 * Z2D) < c * c

\* int(numpy.round((nt + sgn * z * sigma) / 2)), sgn = 1 or -1
RoundHalfSum(nt, s18, sgn) ==
    IF s18 = 0
    THEN RoundDiv(nt, 2)
    ELSE IF sgn = 1
    THEN CHOOSE k \in 0..(2 * nt + 4) :
            ~ZSigmaLess(s18, 2 * k - 1 - nt) /\ ZSigmaLess(s18, 2 * k + 1 - nt)
    ELSE CHOOSE k \in (-(nt + 4))..nt :
            ZSigmaLess(s18, nt - 2 * k + 1) /\ ~ZSigmaLess(s18, nt - 2 * k - 1)

\* slopes[Rx] of the sorted slopes, for a (possibly negative) index Rx
SortedAt(slopes, Rx) == Nth(slopes, (IF Rx < 0 THEN Rx + Len(slopes) ELSE Rx) + 1)
\* the median slope and the slopes at the ranks Rl and Ru
SlopesAt(slopes, Rl, Ru) ==
    [slope |-> Median(slopes),
     lower |-> IF ValidIndex(slopes, Rl) /\ ValidIndex(slopes, Ru)
               THEN SortedAt(slopes, Rl) ELSE NaN,
     upper |-> IF ValidIndex(slopes, Rl) /\ ValidIndex(slopes, Ru)
               THEN SortedAt(slopes, Ru) ELSE NaN]
\* the ranks of the interval for nt slopes
SlopesOf(slopes, nt, s18) ==
    SlopesAt(slopes, Max(RoundHalfSum(nt, s18, -1) - 1, 0),
             Min(RoundHalfSum(nt, s18, 1), nt - 1))
TheilSlopes(y) == SlopesOf(PairSlopes(y), Len(PairSlopes(y)), Sigma18(y))

\* lines 156-161: the level at the median where the interval of the slope
\* holds zero, the line through the median otherwise
LineFit(n, med, ts) ==
    IF RLeq(ts.lower, Zero) /\ RLeq(Zero, ts.upper)
    THEN Ok([t \in 1..n |-> med])
    ELSE Ok([t \in 1..n |->
               RAdd(RMul(ts.slope, R(t - 1)),
                    RSub(med, RMul(RDiv(R(n - 1), R(2)), ts.slope)))])
\* the line of the median-filtered series mf without its ends
LineOf(data, mf, half) ==
    IF mf.err # "" THEN mf
    ELSE LineFit(Len(data), Median(data), TheilSlopes(PySlice(mf.v, half, -half)))
LineFilter(data, window) ==
    LineOf(data, MedianFilter(data, window), FloorHalf(window))

\* spline_filter: scipy's LSQUnivariateSpline is library code; its fitted
\* series (or its failure, None) is the argument fit
SplineFilter(data, nsegs, fit) ==
    IF IsNone(fit) THEN Fail("ValueError") ELSE Ok(Val(fit))

MAX_TREND_PERIOD == 512
DEFAULT_PTIMES == 2
DEFAULT_MIN_PERIOD == 4
DEFAULT_PEAKS_THRESH == [n |-> 9, d |-> 10]

\* window = (int(period * ptimes) // 2) * 2 - 1
Window(period, ptimes) == FloorHalf(period * ptimes) * 2 - 1

\* aglet(filter(...), window): the aglet of a filtered series, or the failure
\* that ended the filter
AgletOf(r, window) == IF r.err # "" THEN r ELSE Aglet(r.v, window)

\* a dispatch that hands the series back for a kind it does not know
FitTrendKindLenient(data, kind, period, ptimes, env) ==
    LET window == Window(period, ptimes)
        nsegs == Len(data) \div (window * 2) + 1
    IN IF kind = "median"
       THEN AgletOf(MedianFilter(data, window), window)
       ELSE IF kind = "mean"
       THEN AgletOf(MeanFilter(data, window), window)
       ELSE IF kind = "line"
       THEN LineFilter(data, window)
       ELSE IF kind = "spline"
       THEN AgletOf(SplineFilter(data, nsegs, env.spline), window)
       ELSE Ok(data)

\* the dispatch of fit_trend on kind, for a known period
FitTrendKind(data, kind, period, ptimes, env) ==
    LET window == Window(period, ptimes)
        nsegs == Len(data) \div (window * 2) + 1
    IN IF kind = "median"
       THEN AgletOf(MedianFilter(data, window), window)
       ELSE IF kind = "mean"
       THEN AgletOf(MeanFilter(data, window), window)
       ELSE IF kind = "line"
       THEN LineFilter(data, window)
       ELSE IF kind = "spline"
       THEN AgletOf(SplineFilter(data, nsegs, env.spline), window)
       ELSE Fail("Exception: unknown filter type")

\* int(round(numpy.average(periods, weights=scores)))
WeightedPeriod(peaks) ==
    LET num == SumSeq([k \in 1..Len(peaks) |-> RMul(R(peaks[k][1]), peaks[k][2])],
                      Len(peaks))
        den == SumSeq([k \in 1..Len(peaks) |-> peaks[k][2]], Len(peaks))
        avg == RDiv(num, den)
    IN RoundDiv(avg.n, avg.d)

\* the period guessed from the broad trend and the peaks of the detrended
\* series: the failure of either, max_period without peaks, else the average
GuessFrom(max_period, broad, pk) ==
    IF broad.err # "" THEN [err |-> broad.err, v |-> 0]
    ELSE IF pk.err # "" THEN [err |-> pk.err, v |-> 0]
    ELSE IF IsNone(pk.peaks) THEN [err |-> "", v |-> max_period]
    ELSE [err |-> "", v |-> WeightedPeriod(Val(pk.peaks))]

\* max_period = min(len(data) // 3, 512)
MaxTrendPeriod(n) == Min(n \div 3, MAX_TREND_PERIOD)

\* guess_trended_period: [err, v] with v the period.  env.pw_guess is
\* welch's estimate for data - broad.
GuessTrendedPeriod(data, env) ==
    GuessFrom(MaxTrendPeriod(Len(data)),
              FitTrendKind(data, "median", MaxTrendPeriod(Len(data)),
                           DEFAULT_PTIMES, env),
              PeriodogramPeaks(Len(data), env.pw_guess, DEFAULT_MIN_PERIOD, None,
                               DEFAULT_PEAKS_THRESH))

\* the dispatch for a period that was supplied or guessed (per is [err, v])
FitTrendFor(data, kind, per, ptimes, env) ==
    IF per.err # "" THEN Fail(per.err)
    ELSE FitTrendKind(data, kind, per.v, ptimes, env)

\* fit_trend(data, kind, period, ptimes); kind "None" is Python's None
FitTrend(data, kind, period, ptimes, env) ==
    IF kind = "None" THEN Ok([t \in 1..Len(data) |-> RAdd(Zero, Mean(data))])
    ELSE FitTrendFor(data, kind,
                     IF IsNone(period) THEN GuessTrendedPeriod(data, env)
                     ELSE [err |-> "", v |-> Val(period)],
                     ptimes, env)

(***************************************************************************)
(* seasonal.fit_seasons.  The trend argument is the record [tag, arr]:    *)
(* tag "None" (no trend), "ndarray" (the series arr is supplied).          *)
(* env.pw is the spectral estimate of the detrended data.  The result      *)
(* carries, besides the returned pair (seasons, trend), the periods handed *)
(* to gcv in call order (scored) and the final values of the locals        *)
(* cv_mse and cv_seasons.                                                  *)
(***************************************************************************)
\* Python's sorted() on the quads: lexicographic order of the four fields
QuadLess(a, b) ==
    \/ a[1] < b[1]
    \/ /\ a[1] = b[1]
       /\ \/ RLess(a[2], b[2])
          \/ /\ a[2] = b[2]
             /\ \/ a[3] < b[3]
                \/ a[3] = b[3] /\ a[4] < b[4]

RECURSIVE InsertQuad(_, _)
InsertQuad(s, q) ==
    IF s = <<>> THEN <<q>>
    ELSE IF QuadLess(q, s[Len(s)])
         THEN Append(InsertQuad(SubSeq(s, 1, Len(s) - 1), q), s[Len(s)])
         ELSE Append(s, q)

RECURSIVE SortQuads(_)
SortQuads(s) ==
    IF s = <<>> THEN <<>>
    ELSE InsertQuad(SortQuads(SubSeq(s, 1, Len(s) - 1)), s[Len(s)])

\* a test under which a later period of equal score replaces the best
ImprovesOrTies(mse, cv_mse) == RLeq(mse, cv_mse)

\* the test that replaces the best fit so far: _mse < cv_mse
Improves(mse, cv_mse) == RLess(mse, cv_mse)

\* a sweep that stops one period short of the end of the interval
RECURSIVE SweepShort(_, _, _)
SweepShort(data, hi, st) ==
    IF st.period < hi
    THEN LET g == Gcv(data, st.period)
             better == Improves(g.cv_mse, st.cv_mse)
         IN SweepShort(data, hi,
                       [period |-> st.period + 1,
                        cv_mse |-> IF better THEN g.cv_mse ELSE st.cv_mse,
                        cv_seasons |-> IF better THEN g.seasons ELSE st.cv_seasons,
                        scored |-> Append(st.scored, st.period)])
    ELSE st

\* while period <= interval[3]: score the period, keep a strictly better fit
RECURSIVE Sweep(_, _, _)
Sweep(data, hi, st) ==
    IF st.period <= hi
    THEN LET g == Gcv(data, st.period)
             better == Improves(g.cv_mse, st.cv_mse)
         IN Sweep(data, hi,
                  [period |-> st.period + 1,
                   cv_mse |-> IF better THEN g.cv_mse ELSE st.cv_mse,
                   cv_seasons |-> IF better THEN g.seasons ELSE st.cv_seasons,
                   scored |-> Append(st.scored, st.period)])
    ELSE st

\* a search that starts every interval at its lower end
RECURSIVE SearchPeaksRestart(_, _, _, _)
SearchPeaksRestart(data, peaks, i, st) ==
    IF i > Len(peaks) THEN st
    ELSE SearchPeaksRestart(data, peaks, i + 1,
                            Sweep(data, peaks[i][4],
                                  [st EXCEPT !.period = peaks[i][3]]))

\* for interval in peaks: period = max(period, interval[2]); sweep
RECURSIVE SearchPeaks(_, _, _, _)
SearchPeaks(data, peaks, i, st) ==
    IF i > Len(peaks) THEN st
    ELSE SearchPeaks(data, peaks, i + 1,
                     Sweep(data, peaks[i][4],
                           [st EXCEPT !.period = Max(st.period, peaks[i][3])]))

\* an exhaustive search that starts at period 2
AllPeriodsFromTwo(n) == << <<0, Zero, 2, n \div 2>> >>

\* an exhaustive search up to the length of the series
AllPeriodsToLen(n) == << <<0, Zero, 4, n>> >>

\* the one interval of the exhaustive search: [(0, 0, 4, len(data) // 2)]
AllPeriods(n) == << <<0, Zero, 4, n \div 2>> >>

\* a test that accepts every fit
AcceptsAny(cv_mse, var, min_ev) == TRUE

\* a test that accepts the fits explaining too little
AcceptsBelow(cv_mse, var, min_ev) ==
    IsClose0(cv_mse) \/ RLeq(RSub(One, RDiv(cv_mse, var)), min_ev)

\* an acceptance test on the share of the variance left unexplained
AcceptsUnexplained(cv_mse, var, min_ev) ==
    IsClose0(cv_mse) \/ RLeq(min_ev, RDiv(cv_mse, var))

\* the acceptance test of a fit: numerically perfect, or enough explained variance
Accepts(cv_mse, var, min_ev) ==
    IsClose0(cv_mse) \/ RLeq(min_ev, RSub(One, RDiv(cv_mse, var)))

\* truth value of an optional number used as a condition (None and 0 are false)
Truthy(o, zero) == ~IsNone(o) /\ Val(o) # zero

\* the trend argument resolved: None, a kind for fit_trend, or a series
Fitted(ft) == [err |-> ft.err, trend |-> ft.v]
ResolveTrend(data, trend, period, env) ==
    IF trend.tag = "None" THEN [err |-> "", trend |-> Zeros(Len(data))]
    ELSE IF trend.tag # "ndarray"
    THEN Fitted(FitTrend(data, trend.tag, period, DEFAULT_PTIMES, env))
    ELSE [err |-> "", trend |-> trend.arr]

\* what a call leaves: the error or the returned pair (seasons, trend), the
\* periods handed to gcv, and the locals cv_mse and cv_seasons
Give(err, seasons, trend, scored, cv_mse, cv_seasons) ==
    [err |-> err, seasons |-> seasons, trend |-> trend, scored |-> scored,
     cv_mse |-> cv_mse, cv_seasons |-> cv_seasons]

\* a return of (None, trend) before any period is scored
GiveUp(err, trend) == Give(err, None, trend, <<>>, Inf, <<>>)

\* a return that puts a zero series in the place of the trend
DecideZeroTrend(cv_mse, cv_seasons, var, trend, scored, min_ev) ==
    Give("", IF Accepts(cv_mse, var, min_ev) THEN Some(cv_seasons) ELSE None,
         Zeros(Len(trend)), scored, cv_mse, cv_seasons)

\* the return of the cv_seasons that pass the acceptance test, else of None
Decide(cv_mse, cv_seasons, var, trend, scored, min_ev) ==
    Give("", IF Accepts(cv_mse, var, min_ev) THEN Some(cv_seasons) ELSE None,
         trend, scored, cv_mse, cv_seasons)

\* if period: the fit of the one requested period (g is gcv's result)
FitFixed(g, var, trend, period, min_ev) ==
    Decide(g.cv_mse, g.seasons, var, trend, <<period>>, min_ev)

\* the search over the intervals peaks (st is the state the sweeps end in)
FitSearched(st, var, trend, min_ev) ==
    Decide(st.cv_mse, st.cv_seasons, var, trend, st.scored, min_ev)

FitSearch(data, var, trend, peaks, min_ev) ==
    FitSearched(SearchPeaks(data, peaks, 1,
                            [period |-> 0, cv_mse |-> Inf, cv_seasons |-> <<>>,
                             scored |-> <<>>]),
                var, trend, min_ev)

\* the search guided by the peaks pk of the periodogram
FitGuided(data, var, trend, pk, min_ev) ==
    IF pk.err # "" THEN GiveUp(pk.err, trend)
    ELSE IF IsNone(pk.peaks) THEN GiveUp("", trend)
    ELSE FitSearch(data, var, trend, SortQuads(Val(pk.peaks)), min_ev)

\* fit_seasons from the detrended series data and its variance var on
FitResidual(data, var, trend, period, min_ev, periodogram_thresh, env) ==
    IF IsClose0(var) THEN GiveUp("", trend)
    ELSE IF Truthy(period, 0)
    THEN FitFixed(Gcv(data, Val(period)), var, trend, Val(period), min_ev)
    ELSE IF Truthy(periodogram_thresh, Zero) /\ IsNone(period)
    THEN FitGuided(data, var, trend,
                   PeriodogramPeaks(Len(data), env.pw, DEFAULT_MIN_PERIOD, None,
                                    Val(periodogram_thresh)),
                   min_ev)
    ELSE FitSearch(data, var, trend, AllPeriods(Len(data)), min_ev)

\* data = data - trend; var = data.var()
FitDetrended(data, trend, period, min_ev, periodogram_thresh, env) ==
    FitResidual(data, Var(data), trend, period, min_ev, periodogram_thresh, env)

\* fit_seasons once the trend argument is resolved to rt
FitResolved(data_arg, rt, period, min_ev, periodogram_thresh, env) ==
    IF rt.err # "" THEN GiveUp(rt.err, rt.trend)
    ELSE FitDetrended(SeqSub(data_arg, rt.trend), rt.trend, period, min_ev,
                      periodogram_thresh, env)

FitSeasons(data_arg, trend_arg, period, min_ev, periodogram_thresh, env) ==
    FitResolved(data_arg, ResolveTrend(data_arg, trend_arg, period, env),
                period, min_ev, periodogram_thresh, env)

(***************************************************************************)
(* seasonal.adjust_seasons.                                                *)
(***************************************************************************)
DEFAULT_MIN_EV == [n |-> 1, d |-> 20]
DEFAULT_PERIODOGRAM_THRESH == [n |-> 1, d |-> 2]

\* a tiling that starts one phase late
TileShifted(s, reps) == [t \in 1..(Len(s) * reps) |-> s[(t % Len(s)) + 1]]

\* numpy.tile(s, reps)
Tile(s, reps) == [t \in 1..(Len(s) * reps) |-> s[((t - 1) % Len(s)) + 1]]

\* lines 154-159: the profile seasons (or None) taken off the series
Adjust(data, seasons, scored) ==
    IF IsNone(seasons)
    THEN [err |-> "", adjusted |-> None, scored |-> scored]
    ELSE IF Len(Val(seasons)) = 0
    THEN [err |-> "ZeroDivisionError", adjusted |-> None, scored |-> scored]
    ELSE [err |-> "",
          adjusted |->
              Some(SeqSub(data,
                          PySlice(Tile(Val(seasons),
                                       Len(data) \div Len(Val(seasons)) + 1),
                                  0, Len(data)))),
          scored |-> scored]

\* lines 152-153: the profile fit_seasons found (fs is its result)
AdjustFitted(data, fs) ==
    IF fs.err # ""
    THEN [err |-> fs.err, adjusted |-> None, scored |-> fs.scored]
    ELSE Adjust(data, fs.seasons, fs.scored)

AdjustSeasons(data, trend_arg, period, seasons_arg, env) ==
    IF IsNone(seasons_arg)
    THEN AdjustFitted(data, FitSeasons(data, trend_arg, period, DEFAULT_MIN_EV,
                                       Some(DEFAULT_PERIODOGRAM_THRESH), env))
    ELSE Adjust(data, seasons_arg, <<>>)

(***************************************************************************)
(* The series the calls are made on: the test generators of                *)
(* seasonal.sequences, cut to n samples.                                   *)
(***************************************************************************)
\* impulses(wid, period, cycles, partial), n = cycles * period + partial
Impulses(wid, period, n) == [t \in 1..n |-> IF (t - 1) % period < wid THEN 1 ELSE 0]
\* square(amp, duty, period, cycles, partial) with wid = int(duty * period)
Square(amp, wid, period, n) == [t \in 1..n |-> amp * Impulses(wid, period, n)[t]]
\* mix(seq, val, prob) with the draw replacing sample j (no sample when j = 0)
Mix(seq, j, val) == [t \in 1..Len(seq) |-> IF t = j THEN val ELSE seq[t]]

Lens == {5, 10, 16}
MixAt(n) == {0, 2, n}
DataSeries(n) ==
    UNION {{Mix(Square(1, wid, q, n), j, 2) : wid \in 0..q, j \in MixAt(n)} :
              q \in 1..MaxBase}
\* the series whose spectral estimate periodogram is asked for
PgramLens == {16, 24, 32, 48}
PgramSeries == {Square(1, 1, 4, n) : n \in PgramLens}
Ramp(n) == [t \in 1..n |-> t - 1]
\* the series fit_trend is asked about: level or rising, with a period
TrendLens == {9, 16}
TrendSeries(n) ==
    {Mix(Square(1, 1, q, n), j, 2) : q \in {2, 4}, j \in {0, n}} \cup
    {[t \in 1..n |-> Ramp(n)[t] + Square(1, 1, 4, n)[t]]}
ToR(s) == [t \in 1..Len(s) |-> R(s[t])]

(***************************************************************************)
(* The arguments the calls are made with.                                  *)
(***************************************************************************)
NoTrend == [tag |-> "None", arr |-> <<>>]
Supplied(s) == [tag |-> "ndarray", arr |-> s]
TrendArgs(n) == {NoTrend, Supplied(Ramp(n))}
RTrend(tr) == [tag |-> tr.tag, arr |-> ToR(tr.arr)]
MinEvs == {DEFAULT_MIN_EV, One}
\* (period, periodogram_thresh) pairs
SearchArgs ==
    {<<None, None>>, <<None, Some(DEFAULT_PERIODOGRAM_THRESH)>>, <<None, Some(One)>>}
FixedArgs == {<<Some(p), Some(DEFAULT_PERIODOGRAM_THRESH)>> : p \in {0, 3, 4, 5}}
\* spectral estimates over b bins: flat at zero, or level lo with one bin at hi
Spectra(b) ==
    {[k \in 1..b |-> 0]} \cup
    {[k \in 1..b |-> IF k = j THEN hi ELSE lo] :
        j \in 1..b, hi \in 1..MaxPow, lo \in 0..1}
\* the spectral estimates fit_seasons may be handed for a series of n samples
SpectraFor(n, period, thresh) ==
    IF Truthy(thresh, Zero) /\ IsNone(period)
    THEN Spectra(NBins(NPerSeg(n, DefaultMaxPeriod(n))))
    ELSE {<<>>}

\* profiles a caller hands to adjust_seasons
SeasonsArgs == {None} \cup {Some(Impulses(1, q, q)) : q \in {3, 4, 6}}
ROpt(o) == IF IsNone(o) THEN None ELSE Some(ToR(Val(o)))
\* what the library calls answer during one call: welch's estimate for the
\* detrended series (pw), welch's estimate inside guess_trended_period
\* (pw_guess), and the spline fit (spline)
Env(pw, pw_guess, spline) ==
    [pw |-> ToR(pw), pw_guess |-> ToR(pw_guess), spline |-> ROpt(spline)]
\* kinds handed to fit_trend; "None" is Python's None, "loess" is not a kind
Kinds == {"None", "median", "mean", "line", "spline", "loess"}
KnownKinds == {"None", "median", "mean", "line", "spline"}
TrendPeriods == {None, Some(1), Some(2), Some(3)}
\* the spline fit: a failure of the library, or a fitted series
SplineFits(s) == {None, Some(s), Some([t \in 1..Len(s) |-> s[1]])}

\* data is the series the calls are about, op the operation called last, args
\* its arguments, ret what it left; mem holds the caller's arrays where their
\* contents are followed across calls
VARIABLES data, op, args, ret, mem
vars == <<data, op, args, ret, mem>>
Untracked == [none |-> TRUE]

Init ==
    /\ data \in UNION {DataSeries(n) : n \in Lens}
    /\ op = "init"
    /\ args = [none |-> TRUE]
    /\ ret = [err |-> ""]
    /\ mem = Untracked

FitSeasonsCall ==
    \E trend \in TrendArgs(Len(data)), pt \in SearchArgs \cup FixedArgs,
       min_ev \in MinEvs :
    \E pw \in SpectraFor(Len(data), pt[1], pt[2]) :
        /\ op = "init"
        /\ op' = "fit_seasons"
        /\ args' = [trend |-> trend, period |-> pt[1], min_ev |-> min_ev,
                    periodogram_thresh |-> pt[2], pw |-> pw]
        /\ ret' = FitSeasons(ToR(data), RTrend(trend), pt[1], min_ev, pt[2],
                             Env(pw, <<>>, None))
        /\ UNCHANGED <<data, mem>>

AdjustSeasonsCall ==
    \E trend \in TrendArgs(Len(data)), period \in {None, Some(4)},
       seasons \in SeasonsArgs :
    \E pw \in IF IsNone(seasons)
              THEN SpectraFor(Len(data), period, Some(DEFAULT_PERIODOGRAM_THRESH))
              ELSE {<<>>} :
        /\ op = "init"
        /\ op' = "adjust_seasons"
        /\ args' = [trend |-> trend, period |-> period, seasons |-> seasons,
                    pw |-> pw]
        /\ ret' = AdjustSeasons(ToR(data), RTrend(trend), period, ROpt(seasons),
                                Env(pw, <<>>, None))
        /\ UNCHANGED <<data, mem>>

PeriodogramCall ==
    \E min_period \in {2, 3, 4}, max_period \in {None, Some(3), Some(20)} :
    \E pw \in Spectra(NBins(NPerSeg(Len(data),
                  IF IsNone(max_period) THEN DefaultMaxPeriod(Len(data))
                  ELSE Val(max_period)))) :
        /\ op = "init"
        /\ op' = "periodogram"
        /\ args' = [min_period |-> min_period, max_period |-> max_period, pw |-> pw]
        /\ ret' = Periodogram(Len(data), ToR(pw), min_period, max_period)
        /\ UNCHANGED <<data, mem>>

Next ==
    \/ FitSeasonsCall
    \/ AdjustSeasonsCall

Spec == Init /\ [][Next]_vars

\* fit_trend on its own
FitTrendCall ==
    \E kind \in Kinds, period \in TrendPeriods :
    \E pw \in IF IsNone(period) /\ kind # "None"
              THEN Spectra(NBins(NPerSeg(Len(data), DefaultMaxPeriod(Len(data)))))
              ELSE {<<>>},
       spline \in IF kind = "spline" THEN SplineFits(data) ELSE {None} :
        /\ op = "init"
        /\ op' = "fit_trend"
        /\ args' = [kind |-> kind, period |-> period, pw |-> pw, spline |-> spline]
        /\ ret' = FitTrend(ToR(data), kind, period, DEFAULT_PTIMES,
                           Env(<<>>, pw, spline))
        /\ UNCHANGED <<data, mem>>

\* the trend arguments of fit_seasons: None, a series, or a kind for fit_trend
KindTrends == {[tag |-> k, arr |-> <<>>] : k \in KnownKinds \ {"None"}}

\* the period arguments of fit_seasons next to a trend: a fixed period, which
\* is also the period handed to fit_trend, or none on the short series, where
\* the period of the trend is guessed and the seasons are searched for
GuessLens == {9}
SeasonPeriods(n) == {Some(2), Some(3)} \cup (IF n \in GuessLens THEN {None} ELSE {})

\* fit_seasons asked to fit the trend itself
FitSeasonsTrendCall ==
    \E trend \in KindTrends \cup TrendArgs(Len(data)),
       period \in SeasonPeriods(Len(data)) :
    \E pw_guess \in IF IsNone(period) /\ trend.tag \notin {"None", "ndarray"}
                    THEN Spectra(NBins(NPerSeg(Len(data),
                                               DefaultMaxPeriod(Len(data)))))
                    ELSE {<<>>},
       spline \in IF trend.tag = "spline" THEN SplineFits(data) ELSE {None} :
        /\ op = "init"
        /\ op' = "fit_seasons"
        /\ args' = [trend |-> trend, period |-> period, min_ev |-> DEFAULT_MIN_EV,
                    periodogram_thresh |-> None, pw |-> <<>>,
                    pw_guess |-> pw_guess, spline |-> spline]
        /\ ret' = FitSeasons(ToR(data), RTrend(trend), period, DEFAULT_MIN_EV,
                             None, Env(<<>>, pw_guess, spline))
        /\ UNCHANGED <<data, mem>>

InitTrend ==
    /\ data \in UNION {TrendSeries(n) : n \in TrendLens}
    /\ op = "init"
    /\ args = [none |-> TRUE]
    /\ ret = [err |-> ""]
    /\ mem = Untracked

NextTrend ==
    \/ FitTrendCall
    \/ FitSeasonsTrendCall

SpecTrend == InitTrend /\ [][NextTrend]_vars

\* the trend of exactly linear series: data[t] = level + slope * t
LineLens == {5, 6, 7, 9, 12}
Levels == {0, 3}
Slopes == {-1, 0, 1, 2}
Line(level, slope, n) == [t \in 1..n |-> level + slope * (t - 1)]
LineSeries(n) == {Line(level, slope, n) : level \in Levels, slope \in Slopes}

InitLine ==
    /\ data \in UNION {LineSeries(n) : n \in LineLens}
    /\ op = "init"
    /\ args = [none |-> TRUE]
    /\ ret = [err |-> ""]
    /\ mem = Untracked

SpecLine == InitLine /\ [][NextTrend]_vars

(***************************************************************************)
(* Noise-free periodic series: a cycle repeated, cut to n samples (cycles  *)
(* whole periods and a partial one, as the generators of sequences do).    *)
(***************************************************************************)
Cycle(pattern, n) == [t \in 1..n |-> pattern[((t - 1) % Len(pattern)) + 1]]
\* s repeats after q samples
HasPeriod(s, q) == \A t \in 1..(Len(s) - q) : s[t + q] = s[t]
\* the cycle of a sine-like wave: a half-cycle and then its negation
Wave(half) == [i \in 1..(2 * Len(half)) |->
                 IF i <= Len(half) THEN half[i] ELSE -half[i - Len(half)]]
SeqsOver(vals, len) == {[i \in 1..len |-> f[i]] : f \in [1..len -> vals]}
CyclePeriods == 1..6
Patterns(P) ==
    IF P <= 3 THEN SeqsOver({-1, 0, 1}, P)
    ELSE {Impulses(wid, P, P) : wid \in 1..(P - 1)} \cup
         (IF P % 2 = 0 THEN {Wave(h) : h \in SeqsOver({0, 1, 2}, P \div 2)} ELSE {})
\* the cycles whose period is not a shorter one repeated
Cycles(P) == {c \in Patterns(P) : \A q \in 1..(P - 1) : ~HasPeriod(Cycle(c, 2 * P), q)}
CycleLens(P) == {2 * P, 2 * P + 1, 3 * P}
CycleSeries == UNION {{Cycle(c, n) : c \in Cycles(P), n \in CycleLens(P)} :
                         P \in CyclePeriods}
\* the amplitudes the series are scaled down by before they are handed to
\* gcv: as they are, and at 1e-4 of it where the series is two periods long
Scales(n, period) == IF n = 2 * period THEN {1, 10000} ELSE {1}
Scaled(s, scale) == [t \in 1..Len(s) |-> RDiv(R(s[t]), R(scale))]

InitCycles ==
    /\ data \in CycleSeries
    /\ op = "init"
    /\ args = [none |-> TRUE]
    /\ ret = [err |-> ""]
    /\ mem = Untracked

\* gcv(data / scale, period), within its documented len(data) >= 2 * period
GcvCall ==
    \E period \in 1..(Len(data) \div 2) :
    \E scale \in Scales(Len(data), period) :
        /\ op = "init"
        /\ op' = "gcv"
        /\ args' = [period |-> period, scale |-> scale]
        /\ ret' = Gcv(Scaled(data, scale), period)
        /\ UNCHANGED <<data, mem>>

\* fit_seasons(data, trend=None, period=period) with the default min_ev
FitSeasonsFixedCall ==
    \E period \in 1..3 :
        /\ op = "init"
        /\ op' = "fit_seasons"
        /\ args' = [trend |-> NoTrend, period |-> Some(period),
                    min_ev |-> DEFAULT_MIN_EV,
                    periodogram_thresh |-> Some(DEFAULT_PERIODOGRAM_THRESH),
                    pw |-> <<>>, scale |-> 1]
        /\ ret' = FitSeasons(ToR(data), RTrend(NoTrend), Some(period),
                             DEFAULT_MIN_EV, Some(DEFAULT_PERIODOGRAM_THRESH),
                             Env(<<>>, <<>>, None))
        /\ UNCHANGED <<data, mem>>

\* the amplitudes the series are scaled down by before the search: as they
\* are, and at 1e-4 of it for the series of two cycles of four samples
SearchScales(n) == IF n = 8 THEN {1, 10000} ELSE {1}

\* fit_seasons(data / scale, trend=None, periodogram_thresh=None): every period
\* from 4 to len(data) // 2 is tried
FitSeasonsSearchCall ==
    \E scale \in SearchScales(Len(data)) :
        /\ op = "init"
        /\ op' = "fit_seasons"
        /\ args' = [trend |-> NoTrend, period |-> None, min_ev |-> DEFAULT_MIN_EV,
                    periodogram_thresh |-> None, pw |-> <<>>, scale |-> scale]
        /\ ret' = FitSeasons(Scaled(data, scale), RTrend(NoTrend), None,
                             DEFAULT_MIN_EV, None, Env(<<>>, <<>>, None))
        /\ UNCHANGED <<data, mem>>

\* adjust_seasons(data / scale, seasons=seasons) with the profile the
\* preceding fit_seasons returned
AdjustFoundCall ==
    /\ op = "fit_seasons"
    /\ ret.err = ""
    /\ ret.seasons # None
    /\ op' = "adjust_seasons"
    /\ args' = [trend |-> NoTrend, period |-> args.period,
                seasons |-> ret.seasons, searched |-> ret.scored,
                scale |-> args.scale]
    /\ ret' = AdjustSeasons(Scaled(data, args.scale), RTrend(NoTrend), None,
                            ret.seasons, Env(<<>>, <<>>, None))
    /\ UNCHANGED <<data, mem>>

NextCycles ==
    \/ GcvCall
    \/ FitSeasonsFixedCall
    \/ FitSeasonsSearchCall
    \/ AdjustFoundCall

SpecCycles == InitCycles /\ [][NextCycles]_vars

(***************************************************************************)
(* The filters of trend.py called on their own, on short series of a few   *)
(* levels and with windows that are odd, even, and longer than the series. *)
(***************************************************************************)
FilterLens == {3, 5, 6}
FilterLevels == {0, 1, 3}
FilterWindows == {1, 2, 3, 5, 7}

InitFilters ==
    /\ data \in UNION {SeqsOver(FilterLevels, n) : n \in FilterLens}
    /\ op = "init"
    /\ args = [none |-> TRUE]
    /\ ret = [err |-> ""]
    /\ mem = Untracked

\* aglet(src, window), dst left at None
AgletCall ==
    \E window \in FilterWindows :
        /\ op = "init"
        /\ op' = "aglet"
        /\ args' = [window |-> window]
        /\ ret' = Aglet(ToR(data), window)
        /\ UNCHANGED <<data, mem>>

MedianFilterCall ==
    \E window \in FilterWindows :
        /\ op = "init"
        /\ op' = "median_filter"
        /\ args' = [window |-> window]
        /\ ret' = MedianFilter(ToR(data), window)
        /\ UNCHANGED <<data, mem>>

MeanFilterCall ==
    \E window \in FilterWindows :
        /\ op = "init"
        /\ op' = "mean_filter"
        /\ args' = [window |-> window]
        /\ ret' = MeanFilter(ToR(data), window)
        /\ UNCHANGED <<data, mem>>

LineFilterCall ==
    \E window \in FilterWindows :
        /\ op = "init"
        /\ op' = "line_filter"
        /\ args' = [window |-> window]
        /\ ret' = LineFilter(ToR(data), window)
        /\ UNCHANGED <<data, mem>>

NextFilters ==
    \/ AgletCall
    \/ MedianFilterCall
    \/ MeanFilterCall
    \/ LineFilterCall

SpecFilters == InitFilters /\ [][NextFilters]_vars

\* the periodogram on its own, over longer series
InitPgram ==
    /\ data \in PgramSeries
    /\ op = "init"
    /\ args = [none |-> TRUE]
    /\ ret = [err |-> ""]
    /\ mem = Untracked

\* thresh arguments of periodogram_peaks, within (0, 1]
PeakThreshs == {DEFAULT_PERIODOGRAM_THRESH, DEFAULT_PEAKS_THRESH, One}

PeriodogramPeaksCall ==
    \E min_period \in {2, 3, 4}, max_period \in {None, Some(3), Some(6), Some(20)},
       thresh \in PeakThreshs :
    \E pw \in Spectra(NBins(NPerSeg(Len(data),
                  IF IsNone(max_period) THEN DefaultMaxPeriod(Len(data))
                  ELSE Val(max_period)))) :
        /\ op = "init"
        /\ op' = "periodogram_peaks"
        /\ args' = [min_period |-> min_period, max_period |-> max_period,
                    thresh |-> thresh, pw |-> pw]
        /\ ret' = PeriodogramPeaks(Len(data), ToR(pw), min_period, max_period,
                                   thresh)
        /\ UNCHANGED <<data, mem>>

\* spectral estimates with one or two bins raised over an empty floor
PeakPairs(b) == {[k \in 1..b |-> IF k \in {i, j} THEN 2 ELSE 0] : i, j \in 1..b}

\* fit_seasons(data, trend=None, periodogram_thresh=thresh): the search over
\* the intervals of the periodogram's peaks
FitSeasonsGuidedCall ==
    \E thresh \in {DEFAULT_PERIODOGRAM_THRESH, One} :
    \E pw \in PeakPairs(NBins(NPerSeg(Len(data), DefaultMaxPeriod(Len(data))))) :
        /\ op = "init"
        /\ op' = "fit_seasons"
        /\ args' = [trend |-> NoTrend, period |-> None, min_ev |-> DEFAULT_MIN_EV,
                    periodogram_thresh |-> Some(thresh), pw |-> pw]
        /\ ret' = FitSeasons(ToR(data), RTrend(NoTrend), None, DEFAULT_MIN_EV,
                             Some(thresh), Env(pw, <<>>, None))
        /\ UNCHANGED <<data, mem>>

NextPgram ==
    \/ PeriodogramCall
    \/ PeriodogramPeaksCall
    \/ FitSeasonsGuidedCall

SpecPgram == InitPgram /\ [][NextPgram]_vars

(***************************************************************************)
(* The caller's arrays across calls.  mem holds the contents of the data,  *)
(* trend and seasons arrays the caller passes.  Each assignment of the     *)
(* code into an array is a write [buf, val]: the array written and what it *)
(* holds afterwards.  An array is one of the caller's, or "local" when it  *)
(* was allocated during the call.                                          *)
(***************************************************************************)
Caller == {"data", "trend", "seasons"}
\* a copy that hands back the array itself
NpCopySame(buf) == buf
\* np.copy(data), np.array(src): a new array
NpCopy(buf) == "local"
\* arithmetic on arrays and the library calls return new arrays
NewArray == "local"
Write(buf, val) == [buf |-> buf, val |-> val]
Store(m, w) == IF w.buf \in Caller THEN [m EXCEPT ![w.buf] = w.val] ELSE m
RECURSIVE StoreAll(_, _, _)
StoreAll(m, ws, k) == IF k = 0 THEN m ELSE Store(StoreAll(m, ws, k - 1), ws[k])
Stored(m, ws) == StoreAll(m, ws, Len(ws))

\* median_filter, mean_filter: filtered = np.copy(data), then assignments
\* into filtered (r is what the filter returns for the array buf)
FilterWrites(buf, r) == IF r.err # "" THEN <<>> ELSE <<Write(NpCopy(buf), r.v)>>

\* aglet: dst as line 123 leaves it
AgletLeft(src, window) ==
    LET half == FloorHalf(window)
        leftslope == TheilSlope(PySlice(src, 0, window))
    IN IF ~ValidIndex(src, half) THEN Fail("IndexError")
       ELSE AssignSlice(src, 0, half,
                        [j \in 1..Max(half, 0) |->
                           RAdd(RMul(R(j - 1 - half), leftslope), At(src, half))])
\* the assignments of lines 123 and 124 into dst, as far as they succeed
AgletStores(dst, left, both) ==
    IF left.err # "" THEN <<>>
    ELSE IF both.err # "" THEN <<Write(dst, left.v)>>
    ELSE <<Write(dst, left.v), Write(dst, both.v)>>
\* aglet(src, window) with dst = np.array(src); r is the filter result in buf
AgletWrites(buf, r, window) ==
    IF r.err # "" THEN <<>>
    ELSE AgletStores(NpCopy(buf), AgletLeft(r.v, window), Aglet(r.v, window))

\* what the smoother of a kind returns (line_filter smooths with the median
\* filter and fits its line in new arrays)
KindFilter(s, kind, window, env) ==
    IF kind = "mean" THEN MeanFilter(s, window)
    ELSE IF kind = "spline"
    THEN SplineFilter(s, Len(s) \div (window * 2) + 1, env.spline)
    ELSE MedianFilter(s, window)
\* the assignments of a kind whose smoother returned r for the array buf: the
\* windowed filters copy buf and aglet copies their result, the spline is
\* a new array that aglet copies
KindStores(buf, kind, window, r) ==
    (IF kind \in {"median", "mean", "line"} THEN FilterWrites(buf, r) ELSE <<>>) \o
    (IF kind \in {"median", "mean", "spline"}
     THEN AgletWrites(IF kind = "spline" THEN NewArray ELSE NpCopy(buf), r, window)
     ELSE <<>>)
\* the dispatch of fit_trend for a known window
KindWrites(buf, s, kind, window, env) ==
    IF kind \in {"median", "mean", "line", "spline"}
    THEN KindStores(buf, kind, window, KindFilter(s, kind, window, env))
    ELSE <<>>

\* periodogram writes into the power array welch returned (lines 113, 117)
PeriodogramWrites(pg) == IF pg.err # "" THEN <<>> ELSE <<Write(NewArray, pg.power)>>
\* periodogram_peaks zeroes the peaks it takes in the same array (line 62)
PeaksWrites(pg, pk) ==
    IF pg.err # "" \/ IsNone(pk.peaks) THEN PeriodogramWrites(pg)
    ELSE PeriodogramWrites(pg) \o
         <<Write(NewArray,
                 [t \in 1..Len(pg.power) |->
                    IF \E q \in 1..Len(Val(pk.peaks)) :
                           Val(pk.peaks)[q][1] = pg.periods[t]
                    THEN Zero ELSE pg.power[t]])>>
PeaksCallWrites(n, pw, min_period, max_period, thresh) ==
    PeaksWrites(Periodogram(n, pw, min_period, max_period),
                PeriodogramPeaks(n, pw, min_period, max_period, thresh))

\* guess_trended_period: the broad median trend, then the peaks of data - broad
GuessWrites(buf, s, window, env) ==
    KindStores(buf, "median", window, MedianFilter(s, window)) \o
    PeaksCallWrites(Len(s), env.pw_guess, DEFAULT_MIN_PERIOD, None,
                    DEFAULT_PEAKS_THRESH)
KindWritesFor(buf, s, kind, per, ptimes, env) ==
    IF per.err # "" THEN <<>>
    ELSE KindWrites(buf, s, kind, Window(per.v, ptimes), env)
\* fit_trend(data, kind, period, ptimes) for data in the array buf
FitTrendWrites(buf, s, kind, period, ptimes, env) ==
    IF kind = "None" THEN <<Write(NewArray, [t \in 1..Len(s) |-> Mean(s)])>>
    ELSE (IF IsNone(period)
          THEN GuessWrites(buf, s, Window(MaxTrendPeriod(Len(s)), DEFAULT_PTIMES),
                           env)
          ELSE <<>>) \o
         KindWritesFor(buf, s, kind,
                       IF IsNone(period) THEN GuessTrendedPeriod(s, env)
                       ELSE Ok(Val(period)),
                       ptimes, env)

\* gcv accumulates in arrays it allocates (lines 187-198)
GcvWrites(g) == <<Write(NewArray, g.seasons)>>

\* fit_seasons: the trend is fitted from data, data - trend is a new array
\* bound to the name data (line 92), and the search reads it
FitSeasonsWrites(m, trend, period, periodogram_thresh, env) ==
    (IF trend.tag \in {"None", "ndarray"} THEN <<>>
     ELSE FitTrendWrites("data", m.data, trend.tag, period, DEFAULT_PTIMES, env)) \o
    <<Write(NewArray, m.data)>> \o
    (IF Truthy(periodogram_thresh, Zero) /\ IsNone(period)
     THEN PeaksCallWrites(Len(m.data), env.pw, DEFAULT_MIN_PERIOD, None,
                          Val(periodogram_thresh))
     ELSE <<>>)

\* adjust_seasons: fit_seasons unless a profile is given; the difference of
\* data and the tiled profile is a new array (line 159)
AdjustSeasonsWrites(m, trend, period, seasons, env) ==
    (IF IsNone(seasons)
     THEN FitSeasonsWrites(m, trend, period, Some(DEFAULT_PERIODOGRAM_THRESH), env)
     ELSE <<>>) \o
    <<Write(NewArray, m.data)>>

\* the arrays a caller holds: the series, a trend and a profile for it
MemSeries ==
    {Square(1, 1, 4, 9), [t \in 1..9 |-> Ramp(9)[t] + Square(1, 1, 4, 9)[t]],
     Square(1, 1, 4, 16)}
Given(s) == [data |-> ToR(s), trend |-> ToR(Ramp(Len(s))),
             seasons |-> ToR(Impulses(1, 4, 4))]
\* the trend argument: None, the caller's trend array, or a kind
MemTrend(m, tag) == [tag |-> tag, arr |-> IF tag = "ndarray" THEN m.trend ELSE <<>>]
\* welch's estimates where the call asks for one (used): no power, or the
\* first bin raised
MemSpectra(n, used) ==
    IF used
    THEN {[k \in 1..NBins(NPerSeg(n, DefaultMaxPeriod(n))) |-> 0],
          [k \in 1..NBins(NPerSeg(n, DefaultMaxPeriod(n))) |-> IF k = 1 THEN 1 ELSE 0]}
    ELSE {<<>>}

InitMemory ==
    /\ data \in MemSeries
    /\ op = "init"
    /\ args = [none |-> TRUE]
    /\ ret = [err |-> ""]
    /\ mem = Given(data)

\* the calls are made in any order and number, with at most one of the
\* fits (fit_trend, fit_seasons, adjust_seasons) in a row
BeforeFit == {"init", "gcv", "periodogram", "periodogram_peaks"}

MemFitTrend ==
    \E kind \in KnownKinds, period \in {None, Some(2)} :
    \E pw \in MemSpectra(Len(mem.data), IsNone(period) /\ kind # "None") :
        /\ op \in BeforeFit
        /\ op' = "fit_trend"
        /\ args' = [kind |-> kind, period |-> period, pw |-> pw]
        /\ ret' = FitTrend(mem.data, kind, period, DEFAULT_PTIMES,
                           Env(<<>>, pw, Some(data)))
        /\ mem' = Stored(mem, FitTrendWrites("data", mem.data, kind, period,
                                             DEFAULT_PTIMES,
                                             Env(<<>>, pw, Some(data))))
        /\ UNCHANGED data

MemPeriodogramPeaks ==
    \E pw \in MemSpectra(Len(mem.data), TRUE) :
        /\ op' = "periodogram_peaks"
        /\ args' = [pw |-> pw]
        /\ ret' = PeriodogramPeaks(Len(mem.data), ToR(pw), DEFAULT_MIN_PERIOD,
                                   None, DEFAULT_PEAKS_THRESH)
        /\ mem' = Stored(mem, PeaksCallWrites(Len(mem.data), ToR(pw),
                                              DEFAULT_MIN_PERIOD, None,
                                              DEFAULT_PEAKS_THRESH))
        /\ UNCHANGED data

MemPeriodogram ==
    \E pw \in MemSpectra(Len(mem.data), TRUE) :
        /\ op' = "periodogram"
        /\ args' = [pw |-> pw]
        /\ ret' = Periodogram(Len(mem.data), ToR(pw), DEFAULT_MIN_PERIOD, None)
        /\ mem' = Stored(mem, PeriodogramWrites(
                                  Periodogram(Len(mem.data), ToR(pw),
                                              DEFAULT_MIN_PERIOD, None)))
        /\ UNCHANGED data

MemGcv ==
    \E period \in 2..4 :
        /\ op' = "gcv"
        /\ args' = [period |-> period]
        /\ ret' = Gcv(mem.data, period)
        /\ mem' = Stored(mem, GcvWrites(Gcv(mem.data, period)))
        /\ UNCHANGED data

MemFitSeasons ==
    \E tag \in {"None", "ndarray", "median", "line"},
       period \in SeasonPeriods(Len(mem.data)) :
    \E pw \in MemSpectra(Len(mem.data), IsNone(period)) :
        /\ op \in BeforeFit
        /\ op' = "fit_seasons"
        /\ args' = [trend |-> tag, period |-> period, pw |-> pw]
        /\ ret' = FitSeasons(mem.data, MemTrend(mem, tag), period, DEFAULT_MIN_EV,
                             Some(DEFAULT_PERIODOGRAM_THRESH),
                             Env(pw, pw, None))
        /\ mem' = Stored(mem, FitSeasonsWrites(mem, MemTrend(mem, tag), period,
                                               Some(DEFAULT_PERIODOGRAM_THRESH),
                                               Env(pw, pw, None)))
        /\ UNCHANGED data

MemAdjustSeasons ==
    \E tag \in {"None", "ndarray"}, seasons \in {None, Some(mem.seasons)} :
    \E pw \in MemSpectra(Len(mem.data), IsNone(seasons)) :
        /\ op \in BeforeFit
        /\ op' = "adjust_seasons"
        /\ args' = [trend |-> tag, seasons |-> seasons, pw |-> pw]
        /\ ret' = AdjustSeasons(mem.data, MemTrend(mem, tag), None, seasons,
                                Env(pw, <<>>, None))
        /\ mem' = Stored(mem, AdjustSeasonsWrites(mem, MemTrend(mem, tag), None,
                                                  seasons, Env(pw, <<>>, None)))
        /\ UNCHANGED data

NextMemory ==
    \/ MemFitTrend
    \/ MemPeriodogram
    \/ MemPeriodogramPeaks
    \/ MemGcv
    \/ MemFitSeasons
    \/ MemAdjustSeasons

SpecMemory == InitMemory /\ [][NextMemory]_vars

(***************************************************************************)
(* The extraction loop of periodogram_peaks pass by pass.  ret holds the   *)
(* locals of the call: periods, power, keep and result; taken lists the    *)
(* indexes peak_i of the passes that appended a peak.  A running call      *)
(* keeps executing, so each pass that can be made is made (weak fairness). *)
(***************************************************************************)
\* thresh arguments: those within (0, 1], and 0
LoopThreshs == PeakThreshs \cup {Zero}
\* passes the model follows a call for beyond the length of its periodogram
ExtraPasses == 2

\* a pass that appends the peak and leaves its power in place
TakePeakKeep(periods, power, result) ==
    [power |-> power,
     result |-> Append(result, <<periods[ArgMax(power)], power[ArgMax(power)],
                                 periods[Min(ArgMax(power) + 1, Len(periods))],
                                 periods[Max(ArgMax(power) - 1, 1)]>>)]

\* lines 58-62: the peak at power.argmax() is appended and its power zeroed
TakePeak(periods, power, result) ==
    [power |-> [power EXCEPT ![ArgMax(power)] = Zero],
     result |-> Append(result, <<periods[ArgMax(power)], power[ArgMax(power)],
                                 periods[Min(ArgMax(power) + 1, Len(periods))],
                                 periods[Max(ArgMax(power) - 1, 1)]>>)]

\* line 51: every power is numerically zero
AllClose0(power) == \A t \in 1..Len(power) : IsClose0(power[t])
\* the locals when the loop is entered; keep is assigned on line 53, past
\* the return of line 52, and is 0 here for a call that returned there
LoopLocals(pg, thresh) ==
    [err |-> pg.err, periods |-> pg.periods, power |-> pg.power,
     keep |-> IF AllClose0(pg.power) THEN Zero
              ELSE RMul(MaxOf(pg.power, Len(pg.power)), thresh),
     result |-> <<>>, taken |-> <<>>]

\* lines 50-54: the periodogram is taken; a call on numerically zero power
\* returns at once
PeaksEnter ==
    \E min_period \in {2, 3, 4}, max_period \in {None, Some(3), Some(6), Some(20)},
       thresh \in LoopThreshs :
    \E pw \in Spectra(NBins(NPerSeg(Len(data),
                  IF IsNone(max_period) THEN DefaultMaxPeriod(Len(data))
                  ELSE Val(max_period)))) :
        /\ op = "init"
        /\ args' = [min_period |-> min_period, max_period |-> max_period,
                    thresh |-> thresh, pw |-> pw]
        /\ ret' = LoopLocals(Periodogram(Len(data), ToR(pw), min_period, max_period),
                             thresh)
        /\ op' = IF AllClose0(ret'.power) THEN "peaks_return" ELSE "peaks_loop"
        /\ UNCHANGED <<data, mem>>

\* lines 55-57, 63: the pass that finds the largest power below keep
PeaksBreak ==
    /\ op = "peaks_loop"
    /\ RLess(ret.power[ArgMax(ret.power)], ret.keep)
    /\ op' = "peaks_return"
    /\ UNCHANGED <<data, args, ret, mem>>

\* lines 55-62: a pass that appends a peak
PeaksTake ==
    /\ op = "peaks_loop"
    /\ ~RLess(ret.power[ArgMax(ret.power)], ret.keep)
    /\ Len(ret.taken) < Len(ret.periods) + ExtraPasses
    /\ ret' = [err |-> ret.err, periods |-> ret.periods, keep |-> ret.keep,
               power |-> TakePeak(ret.periods, ret.power, ret.result).power,
               result |-> TakePeak(ret.periods, ret.power, ret.result).result,
               taken |-> Append(ret.taken, ArgMax(ret.power))]
    /\ UNCHANGED <<data, op, args, mem>>

NextLoop ==
    \/ PeaksEnter
    \/ PeaksBreak
    \/ PeaksTake

SpecLoop ==
    /\ InitPgram
    /\ [][NextLoop]_vars
    /\ WF_vars(PeaksBreak)
    /\ WF_vars(PeaksTake)

(***************************************************************************)
(* Properties.  The vocabulary below reads the recorded call: the series,  *)
(* the trend that was handed in, the residual the seasons are fitted to.   *)
(***************************************************************************)
RData == ToR(data)
GivenTrend == IF args.trend.tag = "None" THEN Zeros(Len(data)) ELSE ToR(args.trend.arr)
Resid == SeqSub(RData, GivenTrend)
\* |x| <= 1e-8
NearZero(x) == x.d > 0 /\ Abs(x.n) <= x.d \div 100000000
ResidVar == Var(Resid)
FixedCall == op = "fit_seasons" /\ args.period # None /\ Val(args.period) # 0
SearchCall == op = "fit_seasons" /\ ~FixedCall
\* explained variance 1 - cv_mse / var
Explained(cv_mse) == RSub(One, RDiv(cv_mse, ResidVar))
ScoredSet == {ret.scored[i] : i \in 1..Len(ret.scored)}
\* the cross-validated MSE of each scored period, in the order scored
RECURSIVE CvSeq(_, _, _)
CvSeq(resid, scored, k) ==
    IF k = 0 THEN <<>>
    ELSE Append(CvSeq(resid, scored, k - 1), Gcv(resid, scored[k]).cv_mse)
\* scored[i] has the minimum of the scores cv, and is the smallest period
\* that has it
IsBest(scored, cv, i) ==
    \A j \in 1..Len(scored) :
        /\ ~RLess(cv[j], cv[i])
        /\ cv[j] = cv[i] => scored[i] <= scored[j]

\* C1: with a fixed non-zero period P and a residual variance that is not
\* numerically zero, fit_seasons scores exactly the period P, and returns the
\* P-long profile of gcv when 1 - cv_mse/var >= min_ev, none otherwise, with
\* the trend it was given (min_ev within its documented range 0..1).
C1_FixedPeriodScoresOnlyP ==
    (FixedCall /\ ~NearZero(ResidVar)) =>
        LET P == Val(args.period)
            g == Gcv(Resid, P)
        IN /\ ret.err = ""
           /\ ret.trend = GivenTrend
           /\ ret.scored = <<P>>
           /\ IF RLeq(args.min_ev, Explained(g.cv_mse))
              THEN /\ ret.seasons = Some(g.seasons)
                   /\ Len(Val(ret.seasons)) = P
              ELSE ret.seasons = None

C1_Witness ==
    /\ FixedCall
    /\ ~NearZero(ResidVar)
    /\ ret.scored = <<3>>
    /\ ret.seasons # None
    /\ ~NearZero(ret.cv_mse)
    /\ Len(data) % 3 # 0

\* C2: in period search the fit considered for acceptance is that of the
\* scored period with the minimum cross-validated MSE over all scored
\* periods, the smallest such period when several tie.
C2_SearchKeepsSmallestBest ==
    (SearchCall /\ ret.err = "" /\ ret.scored # <<>>) =>
        LET resid == Resid
            cv == CvSeq(resid, ret.scored, Len(ret.scored))
        IN \E i \in 1..Len(ret.scored) :
              /\ IsBest(ret.scored, cv, i)
              /\ ret.cv_mse = cv[i]
              /\ ret.cv_seasons = Gcv(resid, ret.scored[i]).seasons
              /\ Len(ret.cv_seasons) = ret.scored[i]

C2_Witness ==
    /\ SearchCall
    /\ ret.seasons # None
    /\ LET cv == CvSeq(Resid, ret.scored, Len(ret.scored))
       IN \E i, j \in 1..Len(ret.scored) :
             /\ ret.scored[i] < ret.scored[j]
             /\ IsBest(ret.scored, cv, i)
             /\ cv[j] = cv[i]
             /\ Len(Val(ret.seasons)) = ret.scored[i]

\* C3: in period search (residual variance not numerically zero) the best
\* period's profile is returned exactly when 1 - cv_mse/var >= min_ev or
\* cv_mse is numerically zero, and (none, trend) otherwise; when no period
\* was scored the result is (none, trend).
C3_SearchAcceptance ==
    (SearchCall /\ ~NearZero(ResidVar)) =>
        /\ ret.err = ""
        /\ ret.trend = GivenTrend
        /\ ret.scored = <<>> => ret.seasons = None
        /\ ret.scored # <<>> =>
              IF NearZero(ret.cv_mse) \/ RLeq(args.min_ev, Explained(ret.cv_mse))
              THEN ret.seasons = Some(ret.cv_seasons)
              ELSE ret.seasons = None

C3_Witness ==
    /\ SearchCall
    /\ ~NearZero(ResidVar)
    /\ Len(ret.scored) >= 2
    /\ ret.seasons # None
    /\ ~NearZero(ret.cv_mse)

\* C4: when the detrended residual has numerically zero variance,
\* fit_seasons returns (none, trend) without scoring any period, with or
\* without a fixed period and for every min_ev.
C4_ZeroVarianceReturnsNone ==
    (op = "fit_seasons" /\ NearZero(ResidVar)) =>
        /\ ret.err = ""
        /\ ret.seasons = None
        /\ ret.trend = GivenTrend
        /\ ret.scored = <<>>

C4_Witness ==
    /\ FixedCall
    /\ NearZero(ResidVar)
    /\ args.min_ev = DEFAULT_MIN_EV
    /\ ret.seasons = None
    /\ ret.scored = <<>>

\* C5: a fixed period P requested on a series of fewer than 2*P samples
\* (residual variance not numerically zero) ends in an InsufficientData error.
C5_ShortSeriesIsAnError ==
    (FixedCall /\ ~NearZero(ResidVar) /\ Len(data) < 2 * Val(args.period)) =>
        ret.err = "InsufficientData"

\* C6: fit_trend with a kind other than None, "mean", "median", "line" or
\* "spline" ends in an error and returns no trend, whatever the series and
\* whether or not a period is supplied.
C6_UnknownKindFails ==
    (op = "fit_trend" /\ args.kind \notin KnownKinds) =>
        /\ ret.err # ""
        /\ ret.v = <<>>

C6_Witness ==
    /\ op = "fit_trend"
    /\ args.kind \notin KnownKinds
    /\ IsNone(args.period)
    /\ ret.err = "Exception: unknown filter type"

\* C7: adjust_seasons returns data[t] - seasons[t mod len(seasons)] for every
\* t of the series, for the profile supplied or else found by fit_seasons,
\* and none exactly when no profile was supplied and none was found; with a
\* supplied profile the result is a function of data and seasons alone.
C7_AdjustSubtractsTiledProfile ==
    op = "adjust_seasons" =>
        LET found == FitSeasons(RData, RTrend(args.trend), args.period,
                                DEFAULT_MIN_EV, Some(DEFAULT_PERIODOGRAM_THRESH),
                                Env(args.pw, <<>>, None)).seasons
            seasons == IF args.seasons # None THEN ROpt(args.seasons) ELSE found
            prof == Val(seasons)
        IN /\ ret.err = ""
           /\ IF seasons = None
              THEN ret.adjusted = None
              ELSE ret.adjusted =
                     Some([t \in 1..Len(data) |->
                             RSub(RData[t], prof[((t - 1) % Len(prof)) + 1])])

C7_Witness ==
    /\ op = "adjust_seasons"
    /\ args.seasons # None
    /\ Len(data) > Len(Val(args.seasons))
    /\ Len(data) % Len(Val(args.seasons)) # 0
    /\ ret.adjusted # None
    /\ Len(Val(ret.adjusted)) = Len(data)

\* C8 (as stated): every profile fit_seasons returns has a length >= 4.
C8_ProfileAtLeastFour ==
    (op = "fit_seasons" /\ ret.seasons # None) => Len(Val(ret.seasons)) >= 4

\* C8 (amended): a profile returned for a fixed period P has length P, for
\* any P >= 1; a profile returned by the search has the length of a scored
\* period, which is >= 4.
C8_ProfileLength ==
    (op = "fit_seasons" /\ ret.seasons # None) =>
        IF FixedCall
        THEN Len(Val(ret.seasons)) = Val(args.period) /\ Val(args.period) >= 1
        ELSE Len(Val(ret.seasons)) \in ScoredSet /\ Len(Val(ret.seasons)) >= 4

C8_Witness ==
    /\ FixedCall
    /\ ret.seasons # None
    /\ Val(args.period) = 3
    /\ Len(Val(ret.seasons)) = 3

\* the window and the collapsed integer grid of the recorded periodogram call
PgMaxPeriod ==
    IF IsNone(args.max_period) THEN DefaultMaxPeriod(Len(data))
    ELSE Val(args.max_period)
PgWindow == NPerSeg(Len(data), PgMaxPeriod)
RECURSIVE Dedup(_)
Dedup(s) ==
    IF Len(s) <= 1 THEN s
    ELSE LET r == Dedup(SubSeq(s, 1, Len(s) - 1))
         IN IF s[Len(s)] = r[Len(r)] THEN r ELSE Append(r, s[Len(s)])
\* the periods of the grid in descending order, each once
GridPeriods == Dedup(RawPeriods(PgWindow))

\* C9: the periods periodogram returns are exactly the collapsed grid
\* periods p with min_period <= p <= max_period.
C9_PeriodsAreTheRange ==
    (op = "periodogram" /\ ret.err = "") =>
        ret.periods =
            SelectSeq(GridPeriods,
                      LAMBDA p : args.min_period <= p /\ p <= PgMaxPeriod)

\* the largest power among the bins of the grid that round to period p,
\* zero for the period equal to the window
PowerOf(p) ==
    LET bins == {k \in 1..NBins(PgWindow) : RoundDiv(PgWindow, k) = p}
        top == CHOOSE k \in bins : \A j \in bins : args.pw[j] <= args.pw[k]
    IN IF p = PgWindow THEN Zero ELSE R(args.pw[top])

\* C10: periodogram returns periods and power of equal length, the periods
\* strictly decreasing (so without duplicates), power[i] being the power of
\* periods[i].
C10_PeriodsDecreasePowerAligned ==
    (op = "periodogram" /\ ret.err = "") =>
        /\ Len(ret.periods) = Len(ret.power)
        /\ \A i, j \in 1..Len(ret.periods) : i < j => ret.periods[i] > ret.periods[j]
        /\ \A i \in 1..Len(ret.periods) : ret.power[i] = PowerOf(ret.periods[i])

C10_Witness ==
    /\ op = "periodogram"
    /\ \E i \in 1..Len(ret.periods) :
          \E k \in 1..(NBins(PgWindow) - 1) :
              /\ RoundDiv(PgWindow, k) = ret.periods[i]
              /\ RoundDiv(PgWindow, k + 1) = ret.periods[i]
              /\ args.pw[k] < args.pw[k + 1]
              /\ ret.power[i] = R(args.pw[k + 1])

\* the periodogram the recorded periodogram_peaks call worked on
PeaksPgram == Periodogram(Len(data), ToR(args.pw), args.min_period, args.max_period)
AllNearZero(power) == \A t \in 1..Len(power) : NearZero(power[t])

\* C11: periodogram_peaks returns none when every power of the periodogram
\* is numerically zero or the periodogram is empty, and otherwise (thresh in
\* (0, 1]) a sequence of at least one peak; it never returns an empty sequence.
C11_PeaksNoneOrNonEmpty ==
    op = "periodogram_peaks" =>
        /\ ret.err = ""
        /\ ret.peaks # Some(<<>>)
        /\ IF AllNearZero(PeaksPgram.power)
           THEN ret.peaks = None
           ELSE ret.peaks # None /\ Len(Val(ret.peaks)) >= 1

C11_Witness ==
    /\ op = "periodogram_peaks"
    /\ args.thresh = One
    /\ ~AllNearZero(PeaksPgram.power)
    /\ ret.peaks # None
    /\ Len(Val(ret.peaks)) >= 2

\* C12: the peaks periodogram_peaks returns are in non-increasing order of
\* score, the first has the largest power of the periodogram, and no two
\* have the same period.
C12_PeaksDescendDistinct ==
    (op = "periodogram_peaks" /\ ret.peaks # None) =>
        LET pk == Val(ret.peaks)
            power == PeaksPgram.power
        IN /\ \A i, j \in 1..Len(pk) : i < j => ~RLess(pk[i][2], pk[j][2])
           /\ \A t \in 1..Len(power) : ~RLess(pk[1][2], power[t])
           /\ \E t \in 1..Len(power) : pk[1][2] = power[t]
           /\ \A i, j \in 1..Len(pk) : i # j => pk[i][1] # pk[j][1]

C12_Witness ==
    /\ op = "periodogram_peaks"
    /\ ret.peaks # None
    /\ Len(Val(ret.peaks)) >= 3
    /\ RLess(Val(ret.peaks)[2][2], Val(ret.peaks)[1][2])
    /\ Val(ret.peaks)[1][1] < Val(ret.peaks)[2][1]

\* C13: the series fit_trend returns for a supported kind has the length of
\* the data, and so has the trend fit_seasons returns, on every return path.
C13_TrendHasDataLength ==
    /\ (op = "fit_trend" /\ args.kind \in KnownKinds /\ ret.err = "")
           => Len(ret.v) = Len(data)
    /\ (op = "fit_seasons" /\ ret.err = "") => Len(ret.trend) = Len(data)

C13_Witness ==
    /\ op = "fit_seasons"
    /\ args.trend.tag = "median"
    /\ IsNone(args.period)
    /\ ret.err = ""
    /\ ret.seasons # None
    /\ ret.trend # ToR(data)
    /\ Len(ret.trend) = Len(data)

\* what fit_trend answers for the trend argument of the recorded fit_seasons call
KindFit ==
    FitTrend(RData, args.trend.tag, args.period, DEFAULT_PTIMES,
             Env(<<>>, args.pw_guess, args.spline))

\* C14: the trend fit_seasons returns, on every return path, is the trend it
\* resolved before fitting: zeros of the data's length for no trend, the
\* supplied series as it is, and the series fit_trend(data, kind, period)
\* returns for a kind (whose failure ends the call).
C14_ReturnsResolvedTrend ==
    op = "fit_seasons" =>
        IF args.trend.tag = "None"
        THEN ret.err = "" /\ ret.trend = Zeros(Len(data))
        ELSE IF args.trend.tag = "ndarray"
        THEN ret.err = "" /\ ret.trend = ToR(args.trend.arr)
        ELSE ret.err = KindFit.err /\ (ret.err = "" => ret.trend = KindFit.v)

C14_Witness ==
    /\ op = "fit_seasons"
    /\ args.trend.tag = "line"
    /\ args.period = Some(3)
    /\ ret.err = ""
    /\ ret.trend[1] # ret.trend[2]
    /\ ret.scored = <<3>>

\* the half-window fit_trend works with when the period is left to it and the
\* detrended series has no peaks: the period is max_period
GuessedHalf(n) == FloorHalf(Window(MaxTrendPeriod(n), DEFAULT_PTIMES))
IsLine(s) == \A t \in 2..(Len(s) - 1) : s[t + 1] - s[t] = s[t] - s[t - 1]
NoPower(pw) == \A k \in 1..Len(pw) : pw[k] = 0

IsWave(s, P) == P % 2 = 0 /\ \A t \in 1..(Len(s) - P \div 2) : s[t + P \div 2] = -s[t]

Fundamental(s, P) == HasPeriod(s, P) /\ \A q \in 1..(P - 1) : ~HasPeriod(s, q)
\* the series the recorded gcv call was handed
GcvData == Scaled(data, args.scale)

Faint(x, scale) ==
    IF scale = 1 THEN x.n <= x.d \div AtolInv
    ELSE x.n * (AtolInv \div (scale * scale)) <= x.d

C18_InputsUntouched == mem = Given(data)

C18_Witness ==
    /\ op = "fit_seasons"
    /\ args.trend = "median"
    /\ ret.err = ""
    /\ ret.trend # mem.data
    /\ mem = Given(data)

\* the series the recorded fit_seasons or adjust_seasons call was handed
CallData == Scaled(data, args.scale)

\* C19: with trend=None and every period searched, noise-free data of
\* fundamental period P, 4 <= P <= len(data) // 2, gets from fit_seasons a
\* profile of length P that is the first cycle of the data, and adjust_seasons
\* with that profile returns zeros.
C19_SearchRecoversCycle ==
    \A P \in CyclePeriods :
        (Fundamental(data, P) /\ 4 <= P /\ P <= Len(data) \div 2) =>
            /\ (op = "fit_seasons" /\ IsNone(args.period))
                   => /\ ret.err = ""
                      /\ ret.seasons = Some([i \in 1..P |-> CallData[i]])
            /\ (op = "adjust_seasons" /\ IsNone(args.period))
                   => /\ ret.err = ""
                      /\ ret.adjusted = Some(Zeros(Len(data)))

\* C19 (amended): under the same conditions fit_seasons returns none when the
\* variance of the data is within the tolerance 1e-8 of zero; otherwise, when
\* no period from 4 to P - 1 has an error within that tolerance, it returns
\* the first cycle of the data as the profile, and adjust_seasons with that
\* profile returns zeros.
C19_SearchRecoversCycleAboveTolerance ==
    \A P \in CyclePeriods :
        (Fundamental(data, P) /\ 4 <= P /\ P <= Len(data) \div 2) =>
            /\ (op = "fit_seasons" /\ IsNone(args.period))
                   => /\ ret.err = ""
                      /\ IF NearZero(Var(CallData))
                         THEN ret.seasons = None
                         ELSE (\A q \in 4..(P - 1) : Gcv(CallData, q).cv_mse # Zero)
                                  => ret.seasons = Some([i \in 1..P |-> CallData[i]])
            /\ (/\ op = "adjust_seasons"
                /\ IsNone(args.period)
                /\ \A q \in 4..(P - 1) : Gcv(CallData, q).cv_mse # Zero)
                   => /\ ret.err = ""
                      /\ ret.adjusted = Some(Zeros(Len(data)))

C19_Witness ==
    /\ op = "adjust_seasons"
    /\ IsNone(args.period)
    /\ Fundamental(data, 5)
    /\ Len(data) = 11
    /\ args.searched = <<4, 5>>
    /\ args.seasons = Some([i \in 1..5 |-> CallData[i]])
    /\ ret.adjusted = Some(Zeros(11))

\* the peaks the recorded fit_seasons call got from periodogram_peaks
GuidingPeaks ==
    PeriodogramPeaks(Len(data), ToR(args.pw), DEFAULT_MIN_PERIOD, None,
                     Val(args.periodogram_thresh)).peaks
\* period q lies in the interval [period-, period+] of one of the peaks
Covered(peaks, q) == \E k \in 1..Len(peaks) : peaks[k][3] <= q /\ q <= peaks[k][4]
\* how often period q was handed to gcv
TimesScored(q) == Cardinality({i \in 1..Len(ret.scored) : ret.scored[i] = q})

\* C20: in the search guided by the periodogram, every integer period that
\* lies in at least one interval [period-, period+] of a peak is scored by
\* gcv exactly once, also where the intervals overlap or are adjacent.
C20_CoveredPeriodsScoredOnce ==
    (/\ op = "fit_seasons"
     /\ IsNone(args.period)
     /\ Truthy(args.periodogram_thresh, Zero)
     /\ GuidingPeaks # None)
        => /\ ret.err = ""
           /\ \A q \in 1..Len(data) :
                  Covered(Val(GuidingPeaks), q) => TimesScored(q) = 1

C20_Witness ==
    /\ op = "fit_seasons"
    /\ IsNone(args.period)
    /\ Len(data) = 48
    /\ GuidingPeaks = Some(<<<<8, R(2), 6, 12>>, <<6, R(2), 5, 8>>>>)
    /\ ret.scored = <<5, 6, 7, 8, 9, 10, 11, 12>>

\* the number of observations in phase ph of a series of n samples cut into
\* periods of q
BucketSize(n, q, ph) == Cardinality({j \in 0..(n - 1) : j % q = ph})

\* C21: every period handed to gcv during a period search (guided by the
\* periodogram with its default bounds, or over the full band) is at least 4
\* and at most half the length of the data, so that every phase bucket holds
\* at least two observations.
C21_ScoredPeriodsInBand ==
    SearchCall =>
        \A i \in 1..Len(ret.scored) :
            /\ 4 <= ret.scored[i]
            /\ 2 * ret.scored[i] <= Len(data)
            /\ \A ph \in 0..(ret.scored[i] - 1) :
                   BucketSize(Len(data), ret.scored[i], ph) >= 2

C21_Witness ==
    /\ SearchCall
    /\ IsNone(args.period)
    /\ Truthy(args.periodogram_thresh, Zero)
    /\ Len(data) = 16
    /\ ret.scored = <<4, 5, 6, 7, 8>>

\* the observations of phase ph (0-based) of y cut into periods of q
PhaseOf(y, q, ph) ==
    [k \in 1..BucketSize(Len(y), q, ph) |-> y[ph + 1 + (k - 1) * q]]
\* the sum of the squared deviations of s from its mean
Sse(s) == SumSeq([k \in 1..Len(s) |->
                    RMul(RSub(s[k], Mean(s)), RSub(s[k], Mean(s)))], Len(s))
\* (n / (n - 1))^2
Inflation(n) == RMul(RDiv(R(n), R(n - 1)), RDiv(R(n), R(n - 1)))
\* the sum over the phases of the inflated squared errors, over len(y)
InflatedError(y, q) ==
    RDiv(SumSeq([i \in 1..q |->
                   RMul(Inflation(BucketSize(Len(y), q, i - 1)),
                        Sse(PhaseOf(y, q, i - 1)))], q),
         R(Len(y)))
\* the phase means of the series handed to the recorded gcv call
PhaseMeans ==
    [i \in 1..args.period |->
        RDiv(Mean(PhaseOf(RData, args.period, i - 1)), R(args.scale))]
\* the inflated error of the series handed to the recorded gcv call
CallError == RDiv(InflatedError(RData, args.period), R(args.scale * args.scale))

\* C22: for a period >= 1 and at least 2 * period samples, gcv returns the
\* phase means as seasons and, as cv_mse, the sum over the phases of
\* (n_i / (n_i - 1))^2 * SSE_i divided by len(data), also where the phases
\* hold different numbers of observations.
C22_GcvIsInflatedError ==
    op = "gcv" => ret.seasons = PhaseMeans /\ ret.cv_mse = CallError

\* C22 (amended): as above, except that gcv returns exactly 0 for an error
\* within the tolerance 1e-8 of zero.
C22_GcvIsInflatedErrorAboveTolerance ==
    op = "gcv" =>
        /\ ret.seasons = PhaseMeans
        /\ ret.cv_mse =
              IF Faint(InflatedError(RData, args.period), args.scale)
              THEN Zero ELSE CallError

C22_Witness ==
    /\ op = "gcv"
    /\ Len(data) = 13
    /\ args.period = 4
    /\ BucketSize(13, 4, 0) = 4
    /\ BucketSize(13, 4, 3) = 3
    /\ RLess(Zero, ret.cv_mse)
    /\ ret.cv_mse = CallError

\* the squared error of predicting s[k] by the mean of the other entries of s
HeldOutError(s, k) ==
    RMul(RSub(s[k], RDiv(RSub(SumSeq(s, Len(s)), s[k]), R(Len(s) - 1))),
         RSub(s[k], RDiv(RSub(SumSeq(s, Len(s)), s[k]), R(Len(s) - 1))))
\* the literal leave-one-out error: the mean over all observations of the
\* squared error of the prediction from the rest of their phase
LeaveOneOut(y, q) ==
    RDiv(SumSeq([i \in 1..q |->
                   SumSeq([k \in 1..BucketSize(Len(y), q, i - 1) |->
                             HeldOutError(PhaseOf(y, q, i - 1), k)],
                          BucketSize(Len(y), q, i - 1))], q),
         R(Len(y)))
\* the leave-one-out error of the series handed to the recorded gcv call
CallLeaveOneOut ==
    RDiv(LeaveOneOut(RData, args.period), R(args.scale * args.scale))

\* C23: the cv_mse gcv returns equals the literal leave-one-out error, for
\* every series and period with at least two observations in each phase.
C23_GcvIsLeaveOneOut == op = "gcv" => ret.cv_mse = CallLeaveOneOut

\* C23 (amended): the cv_mse gcv returns equals the literal leave-one-out
\* error where that error exceeds the tolerance 1e-8, and is exactly 0 where
\* it does not.
C23_GcvIsLeaveOneOutAboveTolerance ==
    op = "gcv" =>
        ret.cv_mse = IF Faint(LeaveOneOut(RData, args.period), args.scale)
                     THEN Zero ELSE CallLeaveOneOut

C23_Witness ==
    /\ op = "gcv"
    /\ Len(data) = 11
    /\ args.period = 4
    /\ BucketSize(11, 4, 3) = 2
    /\ RLess(Zero, CallLeaveOneOut)
    /\ ret.cv_mse = CallLeaveOneOut

\* the largest power of the periodogram the recorded call worked on
TopPower ==
    LET power == PeaksPgram.power
    IN power[CHOOSE t \in 1..Len(power) : \A u \in 1..Len(power) : RLeq(power[u], power[t])]
\* entry t of that periodogram reaches thresh * (maximum power)
Reaches(t) == RLeq(RMul(TopPower, args.thresh), PeaksPgram.power[t])

\* C24: for power that is not all numerically zero and thresh in (0, 1],
\* the peaks periodogram_peaks returns are exactly the entries of the
\* periodogram whose power is at least thresh * (maximum power), each once.
C24_PeaksAreTheEntriesAtThresh ==
    (op = "periodogram_peaks" /\ ~AllNearZero(PeaksPgram.power)) =>
        /\ ret.peaks # None
        /\ \A t \in 1..Len(PeaksPgram.power) :
               Reaches(t) =>
                   Cardinality({i \in 1..Len(Val(ret.peaks)) :
                                   /\ Val(ret.peaks)[i][1] = PeaksPgram.periods[t]
                                   /\ Val(ret.peaks)[i][2] = PeaksPgram.power[t]}) = 1
        /\ \A i \in 1..Len(Val(ret.peaks)) :
               \E t \in 1..Len(PeaksPgram.power) :
                   /\ Reaches(t)
                   /\ Val(ret.peaks)[i][1] = PeaksPgram.periods[t]
                   /\ Val(ret.peaks)[i][2] = PeaksPgram.power[t]

C24_Witness ==
    /\ op = "periodogram_peaks"
    /\ args.thresh = DEFAULT_PERIODOGRAM_THRESH
    /\ ret.peaks # None
    /\ Len(Val(ret.peaks)) = 3
    /\ Len(PeaksPgram.power) = 4
    /\ \E t \in 1..4 : PeaksPgram.power[t] = Zero
    /\ RLess(Val(ret.peaks)[3][2], Val(ret.peaks)[1][2])

\* the index of period p in the periodogram the recorded call worked on
GridIndex(p) == CHOOSE t \in 1..Len(PeaksPgram.periods) : PeaksPgram.periods[t] = p
\* the peak brackets period p by its neighbours on that grid
Bracketed(peak) ==
    LET periods == PeaksPgram.periods
        t == GridIndex(peak[1])
    IN /\ \E u \in 1..Len(periods) : periods[u] = peak[1]
       /\ peak[3] = periods[Min(t + 1, Len(periods))]
       /\ peak[4] = periods[Max(t - 1, 1)]

\* C25: each peak periodogram_peaks returns carries as period_minus the
\* period at the next index of the periodogram and as period_plus the period
\* at the previous index, either clamped to the peak's own index at the ends
\* of the grid, so that period_minus <= period <= period_plus.
C25_PeaksAreBracketed ==
    (op = "periodogram_peaks" /\ ret.peaks # None) =>
        \A i \in 1..Len(Val(ret.peaks)) :
            /\ Bracketed(Val(ret.peaks)[i])
            /\ Val(ret.peaks)[i][3] <= Val(ret.peaks)[i][1]
            /\ Val(ret.peaks)[i][1] <= Val(ret.peaks)[i][4]

C25_Witness ==
    /\ op = "periodogram_peaks"
    /\ ret.peaks # None
    /\ \E i, j, k \in 1..Len(Val(ret.peaks)) :
           /\ Val(ret.peaks)[i][3] < Val(ret.peaks)[i][1]
           /\ Val(ret.peaks)[i][1] < Val(ret.peaks)[i][4]
           /\ GridIndex(Val(ret.peaks)[j][1]) = 1
           /\ Val(ret.peaks)[j][4] = Val(ret.peaks)[j][1]
           /\ GridIndex(Val(ret.peaks)[k][1]) = Len(PeaksPgram.periods)
           /\ Val(ret.peaks)[k][3] = Val(ret.peaks)[k][1]

\* periods and power of the recorded periodogram call when its collapsing
\* loop ends
Collapsed == Collapse(RawPeriods(PgWindow), ToR(args.pw), 1)
\* the bins of the window that round to period p
BinsOf(p) == {k \in 1..NBins(PgWindow) : RoundDiv(PgWindow, k) = p}
\* the largest of the powers of these bins
TopOf(bins) == R(args.pw[CHOOSE k \in bins : \A j \in bins : args.pw[j] <= args.pw[k]])

\* C26: when the collapsing loop of periodogram ends, each distinct integer
\* period of the grid appears once, in the order of the grid, and its power
\* is the largest power of all the bins that round to it, however many.
C26_CollapseKeepsMaxOfEachPeriod ==
    (op = "periodogram" /\ ret.err = "") =>
        /\ Collapsed.periods = GridPeriods
        /\ \A i, j \in 1..Len(Collapsed.periods) :
               i # j => Collapsed.periods[i] # Collapsed.periods[j]
        /\ Len(Collapsed.power) = Len(Collapsed.periods)
        /\ \A i \in 1..Len(Collapsed.periods) :
               Collapsed.power[i] = TopOf(BinsOf(Collapsed.periods[i]))

C26_Witness ==
    /\ op = "periodogram"
    /\ ret.err = ""
    /\ \E i \in 1..Len(ret.periods) :
          LET bins == BinsOf(ret.periods[i])
          IN /\ Cardinality(bins) >= 3
             /\ \E k \in bins : /\ k - 1 \in bins
                                 /\ k - 2 \in bins
                                 /\ args.pw[k - 2] < args.pw[k]
                                 /\ args.pw[k - 1] < args.pw[k]
                                 /\ ret.power[i] = R(args.pw[k])
             /\ Len(Collapsed.periods) < NBins(PgWindow) - 2

\* the recorded call was made with an odd window no longer than the series
OddWindow == args.window % 2 = 1 /\ 1 <= args.window /\ args.window <= Len(data)
\* its half-width h
HalfWidth == (args.window - 1) \div 2
\* the Theil-Sen slope of the first and of the last window samples of src
LeftSlope == TheilSlope(SubSeq(RData, 1, args.window))
RightSlope == TheilSlope(SubSeq(RData, Len(data) - args.window + 1, Len(data)))
\* the value at 0-based index i of the line of the given slope through (i0, y0)
OnLine(slope, i0, y0, i) == RAdd(y0, RMul(slope, R(i - i0)))

\* C27: for every odd window w = 2h + 1 with 1 <= w <= len(src), aglet
\* returns a series whose samples at the indexes h .. len - h - 1 are those
\* of src, whose first h samples lie on the line of slope leftslope through
\* (h, src[h]) and whose last h samples lie on the line of slope rightslope
\* through (len - h - 1, src[len - h - 1]).
C27_AgletReplacesTheEnds ==
    (op = "aglet" /\ OddWindow) =>
        /\ ret.err = ""
        /\ Len(ret.v) = Len(data)
        /\ \A i \in 0..(Len(data) - 1) :
               ret.v[i + 1] =
                   IF i < HalfWidth
                   THEN OnLine(LeftSlope, HalfWidth, RData[HalfWidth + 1], i)
                   ELSE IF i > Len(data) - HalfWidth - 1
                   THEN OnLine(RightSlope, Len(data) - HalfWidth - 1,
                               RData[Len(data) - HalfWidth], i)
                   ELSE RData[i + 1]

\* data[i - h .. i + h] around the 0-based index i
WindowAt(i) == SubSeq(RData, i - HalfWidth + 1, i + HalfWidth + 1)
\* the 0-based index i has a full window within the series
FullWindow(i) == HalfWidth <= i /\ i < Len(data) - HalfWidth

\* C28: for every odd window w = 2h + 1 with 1 <= w <= len(data),
\* mean_filter and median_filter return a series whose value at each index i
\* with h <= i < len(data) - h is the mean, respectively the median, of
\* data[i - h .. i + h], and whose value at every other index is data[i].
C28_FiltersSmoothFullWindows ==
    (op \in {"mean_filter", "median_filter"} /\ OddWindow) =>
        /\ ret.err = ""
        /\ Len(ret.v) = Len(data)
        /\ \A i \in 0..(Len(data) - 1) :
               ret.v[i + 1] =
                   IF ~FullWindow(i) THEN RData[i + 1]
                   ELSE IF op = "mean_filter" THEN Mean(WindowAt(i))
                   ELSE Nth(WindowAt(i), HalfWidth + 1)

\* the median-filtered series of the recorded call without the window // 2
\* samples at each end
Interior ==
    SubSeq(MedianFilter(RData, args.window).v, args.window \div 2 + 1,
           Len(data) - args.window \div 2)
\* the robust slope of that interior and its confidence interval
FittedLine == TheilSlopes(Interior)
\* the value at 0-based index i of the line of the fitted slope that takes
\* the value median(data) at the index (len(data) - 1) / 2
CentredLine(i) ==
    RAdd(Median(RData), RMul(FittedLine.slope, RDiv(R(2 * i - (Len(data) - 1)), R(2))))

\* C29: line_filter returns the constant series of median(data) when the
\* confidence interval [lower, upper] of the robust slope contains zero, and
\* otherwise the straight line of the fitted robust slope that takes the
\* value median(data) at the centre index (len(data) - 1) / 2.
C29_LineFilterLevelOrCentredLine ==
    op = "line_filter" =>
        /\ ret.err = ""
        /\ Len(ret.v) = Len(data)
        /\ \A i \in 0..(Len(data) - 1) :
               ret.v[i + 1] =
                   IF RLeq(FittedLine.lower, Zero) /\ RLeq(Zero, FittedLine.upper)
                   THEN Median(RData)
                   ELSE CentredLine(i)

\* the recorded call is within the loop of periodogram_peaks, or past it,
\* with a thresh in (0, 1]
InLoop == op \in {"peaks_loop", "peaks_return"} /\ RLess(Zero, args.thresh)
\* the passes so far took different indexes, no more than there are periods
TakenOnce ==
    /\ Len(ret.taken) <= Len(ret.periods)
    /\ \A i, j \in 1..Len(ret.taken) : i # j => ret.taken[i] # ret.taken[j]

\* C30: for non-negative power and thresh in (0, 1] the extraction loop of
\* periodogram_peaks ends, after at most len(periods) passes that take a
\* peak, each of them at a different index.
C30_ExtractionLoopEnds ==
    /\ [](InLoop => TakenOnce)
    /\ (op = "peaks_loop" /\ RLess(Zero, args.thresh)) ~> (op = "peaks_return")

C30_Witness ==
    /\ op = "peaks_return"
    /\ RLess(Zero, args.thresh)
    /\ Len(ret.periods) = 3
    /\ Len(ret.taken) = 3
    /\ ret.taken = <<1, 2, 3>>

=============================================================================
